---- MODULE Spec2Model ----
(***************************************************************************)
(* Tufting yarn calculator: the colour analysis of imageProcessing.js (in  *)
(* its two versions: the percentage policy of src/imageProcessing.js and   *)
(* the area policy with the label map of src/unnamed/part_000), the yarn   *)
(* computation of calculation.js and the result list of app.js with its    *)
(* selection and merge handlers.                                           *)
(*                                                                         *)
(* Numbers.  JavaScript doubles are modelled exactly: areas, percentages   *)
(* and yarn figures are rationals [n, d] in lowest terms; Lab coordinates  *)
(* are integers in tenths of a Lab unit, computed by the code's chain      *)
(* sRGB -> linear -> XYZ -> Lab in fixed point; a centroid (labMean) is    *)
(* the pair of a Lab sum and a count, and distances are compared by their  *)
(* exact squares.                                                          *)
(***************************************************************************)
EXTENDS Integers, Sequences, FiniteSets, TLC

(***************************************************************************)
(* Bounds of the model.                                                    *)
(***************************************************************************)
\* the largest number of pixels (width x height) of a canvas
MaxPixels == 4

(***************************************************************************)
(* Rationals in lowest terms with a positive denominator.                  *)
(***************************************************************************)
Abs(x) == IF x < 0 THEN -x ELSE x

RECURSIVE Gcd(_, _)
Gcd(a, b) == IF b = 0 THEN a ELSE Gcd(b, a % b)

\* NaN, and the value `undefined` of a missing field or argument
NaN == [n |-> 0, d |-> 0]
Undefined == [n |-> 0, d |-> -1]

Rat(n, d) ==
  LET g == Gcd(Abs(n), Abs(d))
      s == IF d < 0 THEN -1 ELSE 1
  IN  IF g = 0 THEN NaN ELSE [n |-> (s * n) \div g, d |-> (s * d) \div g]

Zero == [n |-> 0, d |-> 1]
RInt(k) == [n |-> k, d |-> 1]
\* of finite numbers over the least common denominator, to keep the
\* intermediate products small
RAdd(p, q) ==
  IF p.d > 0 /\ q.d > 0
  THEN LET g == Gcd(p.d, q.d)
       IN  Rat(p.n * (q.d \div g) + q.n * (p.d \div g), (p.d \div g) * q.d)
  ELSE Rat(p.n * q.d + q.n * p.d, p.d * q.d)
RMul(p, q) ==
  IF p.d > 0 /\ q.d > 0
  THEN LET g1 == Gcd(Abs(p.n), q.d)
           g2 == Gcd(Abs(q.n), p.d)
       IN  Rat((p.n \div g1) * (q.n \div g2), (p.d \div g2) * (q.d \div g1))
  ELSE Rat(p.n * q.n, p.d * q.d)
\* a division by zero yields Infinity or NaN, a value with denominator 0
RDiv(p, q) ==
  IF q.n = 0
  THEN [n |-> IF p.n > 0 THEN 1 ELSE IF p.n < 0 THEN -1 ELSE 0, d |-> 0]
  ELSE Rat(p.n * q.d, p.d * q.n)
IsFinite(p) == p.d > 0
\* typeof x === "number"
IsNumber(p) == p.d >= 0
\* x || 0: undefined, NaN and 0 are falsy
OrZero(p) == IF p.n = 0 THEN Zero ELSE p
RLe(p, q) == p.n * q.d <= q.n * p.d
RLt(p, q) == p.n * q.d < q.n * p.d
RMax(p, q) == IF RLe(p, q) THEN q ELSE p

RECURSIVE RSum(_)
RSum(s) == IF s = <<>> THEN Zero ELSE RAdd(RSum(SubSeq(s, 1, Len(s) - 1)), s[Len(s)])

RECURSIVE ISum(_)
ISum(s) == IF s = <<>> THEN 0 ELSE ISum(SubSeq(s, 1, Len(s) - 1)) + s[Len(s)]

(***************************************************************************)
(* Colour utilities of imageProcessing.js.                                 *)
(***************************************************************************)
\* The pixels the buffers are drawn from, <<r, g, b, a>>.
Red  == << 255, 0, 0, 255 >>
Blue == << 0, 0, 255, 255 >>
\* Pure red and blue, and three darker reds within reach of one another at
\* the middle tolerances, one of them half transparent.
Pixels == { Red, Blue, << 169, 0, 0, 255 >>, << 223, 0, 0, 200 >>, << 142, 0, 0, 255 >> }


\* srgbToLinear(c) in units of 1/10000: (c/255)/12.92 below 0.04045, else
\* ((c/255 + 0.055)/1.055)^2.4, tabulated at the palette's channel values.
srgbToLinear(c) ==
  CASE c = 0   -> 0
    [] c = 142 -> 2705
    [] c = 169 -> 3968
    [] c = 223 -> 7379
    [] c = 255 -> 10000

\* RGB -> XYZ (D65), in units of 1/10000; the matrix to five decimals.
rgbToXyz(r, g, b) ==
  LET R == srgbToLinear(r)
      G == srgbToLinear(g)
      B == srgbToLinear(b)
  IN  << (R * 41246 + G * 35758 + B * 18044) \div 100000,
         (R * 21267 + G * 71515 + B * 7218) \div 100000,
         (R * 1933 + G * 11919 + B * 95030) \div 100000 >>

\* Math.cbrt on integers: the largest k with k^3 <= x, by bisection in lo..hi
RECURSIVE CbrtIn(_, _, _)
CbrtIn(x, lo, hi) ==
  IF lo >= hi THEN lo
  ELSE LET mid == (lo + hi + 1) \div 2
       IN  IF mid * mid * mid <= x THEN CbrtIn(x, mid, hi) ELSE CbrtIn(x, lo, mid - 1)

Cbrt(x) == CbrtIn(x, 0, 1100)

\* fLab(t), t in 1/10000, result in 1/1000: the cube root above delta^3 =
\* 216/24389, the linear piece t/(3 delta^2) + 4/29 = t * 841/108 + 4/29 below.
fLab(t) ==
  IF t * 24389 > 216 * 10000
  THEN Cbrt(t * 100000)
  ELSE (t * 841 * 29 + 4000 * 1080 + 15660) \div 31320

\* XYZ -> Lab with the D65 white (0.95047, 1, 1.08883); Lab in tenths.
xyzToLab(x, y, z) ==
  LET fx == fLab((x * 100000) \div 95047)
      fy == fLab(y)
      fz == fLab((z * 100000) \div 108883)
  IN  << (116 * fy - 16000) \div 100, 5 * (fx - fy), 2 * (fy - fz) >>

rgbToLab(r, g, b) ==
  LET xyz == rgbToXyz(r, g, b) IN xyzToLab(xyz[1], xyz[2], xyz[3])

\* rgbToLab on the pixels of the palette, computed once
LabOf == [px \in Pixels |-> rgbToLab(px[1], px[2], px[3])]

\* The square of deltaE76(lab1, labMean), in tenths squared, as a rational:
\* labMean is the pair [sum, n] standing for sum / n.
deltaE76(lab1, mean) ==
  LET dL == mean.n * lab1[1] - mean.sum[1]
      da == mean.n * lab1[2] - mean.sum[2]
      db == mean.n * lab1[3] - mean.sum[3]
  IN  [n |-> dL * dL + da * da + db * db, d |-> mean.n * mean.n]

\* rgbToHex: two hexadecimal digits per channel
rgbToHex(r, g, b) == << r \div 16, r % 16, g \div 16, g % 16, b \div 16, b % 16 >>

(***************************************************************************)
(* analyzeImage: the scan (steps 1-3), shared by both versions.  A pixel   *)
(* is <<r, g, b, a>>; a cluster is [id, count, rgbSum, labSum, labMean].   *)
(* Cluster ids and labels count from 0 as in the code; the cluster with id *)
(* k is clusters[k + 1].                                                   *)
(***************************************************************************)
deltaEMin == 3
deltaEMax == 50

\* mutant: the slider mapped the wrong way round
deltaEThresholdInverted(tolerance) == 100 * deltaEMax - (deltaEMax - deltaEMin) * tolerance

\* deltaEThreshold in hundredths of a Lab unit
deltaEThreshold(tolerance) == 100 * deltaEMin + (deltaEMax - deltaEMin) * tolerance

\* bestDist <= deltaEThreshold, on the squares: dist is in tenths squared
WithinThreshold(dist, threshold) == dist.n <= (threshold * threshold * dist.d) \div 100

\* a store into an Int16Array
ToInt16(x) == ((x + 32768) % 65536) - 32768

\* mutant: the loop stops at the first cluster
RECURSIVE FindNearestFirst(_, _, _, _)
FindNearestFirst(lab, clusters, c, best) ==
  IF c >= Len(clusters) THEN best
  ELSE FindNearestFirst(lab, clusters, c + 1, IF best = -1 THEN c ELSE best)

\* the loop `for c ... if (d < bestDist)`: best is bestIdx, -1 while bestDist
\* is Infinity
RECURSIVE FindNearest(_, _, _, _)
FindNearest(lab, clusters, c, best) ==
  IF c >= Len(clusters) THEN best
  ELSE LET d == deltaE76(lab, clusters[c + 1].labMean)
           closer == \/ best = -1
                     \/ RLt(d, deltaE76(lab, clusters[best + 1].labMean))
       IN  FindNearest(lab, clusters, c + 1, IF closer THEN c ELSE best)

\* mutant: the admission forgets cl.count++
AdmitToClusterNoCount(cl, px, lab) ==
  LET labSum == << cl.labSum[1] + lab[1], cl.labSum[2] + lab[2], cl.labSum[3] + lab[3] >>
  IN  [cl EXCEPT !.rgbSum = << cl.rgbSum[1] + px[1], cl.rgbSum[2] + px[2], cl.rgbSum[3] + px[3] >>,
                 !.labSum = labSum,
                 !.labMean = [sum |-> labSum, n |-> cl.count]]

\* mutant: the admission leaves cl.labMean as it was
AdmitToClusterStaleMean(cl, px, lab) ==
  LET labSum == << cl.labSum[1] + lab[1], cl.labSum[2] + lab[2], cl.labSum[3] + lab[3] >>
  IN  [cl EXCEPT !.count  = cl.count + 1,
                 !.rgbSum = << cl.rgbSum[1] + px[1], cl.rgbSum[2] + px[2], cl.rgbSum[3] + px[3] >>,
                 !.labSum = labSum]

\* the admission of a pixel to an existing cluster
AdmitToCluster(cl, px, lab) ==
  LET count  == cl.count + 1
      labSum == << cl.labSum[1] + lab[1], cl.labSum[2] + lab[2], cl.labSum[3] + lab[3] >>
  IN  [cl EXCEPT !.count  = count,
                 !.rgbSum = << cl.rgbSum[1] + px[1], cl.rgbSum[2] + px[2], cl.rgbSum[3] + px[3] >>,
                 !.labSum = labSum,
                 !.labMean = [sum |-> labSum, n |-> count]]

NewCluster(id, px, lab) ==
  [id |-> id, count |-> 1, rgbSum |-> << px[1], px[2], px[3] >>,
   labSum |-> lab, labMean |-> [sum |-> lab, n |-> 1]]

\* mutant: a pixel whose alpha is the threshold counts as valid
IsTransparentStrict(px, alphaThreshold) == px[4] < alphaThreshold

\* the alpha test of the scan: the pixel is skipped
IsTransparent(px, alphaThreshold) == px[4] <= alphaThreshold

\* mutant: pixelsValid++ ahead of the alpha test
SkipPixelCounted(st) == [st EXCEPT !.pixelsValid = @ + 1]

\* `continue`: a transparent pixel leaves the scan state as it is
SkipPixel(st) == st

\* The body of the scan for a valid pixel number idx (from 0): it joins the
\* nearest cluster when that is within the threshold, else it starts a cluster.
PlacePixel(st, px, idx, threshold) ==
  LET lab     == LabOf[px]
      bestIdx == FindNearest(lab, st.clusters, 0, -1)
      admit   == /\ bestIdx >= 0
                 /\ WithinThreshold(deltaE76(lab, st.clusters[bestIdx + 1].labMean), threshold)
  IN  IF admit
      THEN [clusters |-> [st.clusters EXCEPT ![bestIdx + 1] = AdmitToCluster(@, px, lab)],
            rawLabel |-> [st.rawLabel EXCEPT ![idx + 1] = ToInt16(bestIdx)],
            pixelsValid |-> st.pixelsValid + 1]
      ELSE [clusters |-> Append(st.clusters, NewCluster(Len(st.clusters), px, lab)),
            rawLabel |-> [st.rawLabel EXCEPT ![idx + 1] = ToInt16(Len(st.clusters))],
            pixelsValid |-> st.pixelsValid + 1]

\* One iteration of the scan.  st = [clusters, rawLabel, pixelsValid]; the
\* version of src/imageProcessing.js keeps no rawLabel, which nothing of it reads.
ScanPixel(st, px, idx, alphaThreshold, threshold) ==
  IF IsTransparent(px, alphaThreshold) THEN SkipPixel(st)
  ELSE PlacePixel(st, px, idx, threshold)

RECURSIVE ScanLoop(_, _, _, _, _)
ScanLoop(data, alphaThreshold, threshold, st, idx) ==
  IF idx >= Len(data) THEN st
  ELSE ScanLoop(data, alphaThreshold, threshold,
                ScanPixel(st, data[idx + 1], idx, alphaThreshold, threshold), idx + 1)

ScanStart(canvas) ==
  [clusters |-> <<>>, rawLabel |-> [k \in 1..(canvas.width * canvas.height) |-> -1],
   pixelsValid |-> 0]

Scan(canvas, alphaThreshold, tolerance) ==
  ScanLoop(canvas.data, alphaThreshold, deltaEThreshold(tolerance), ScanStart(canvas), 0)

(***************************************************************************)
(* analyzeImage: areas, results, the kept/dropped partition and the totals *)
(***************************************************************************)
\* mutant: the mean truncated instead of rounded
RoundDivFloor(sum, count) == sum \div count

\* Math.round of sum / count, sum >= 0
RoundDiv(sum, count) == (2 * sum + count) \div (2 * count)

IMax(a, b) == IF a >= b THEN a ELSE b

BoxAreaCm2(opts) == RInt(IMax(0, opts.rugWidthCm) * IMax(0, opts.rugHeightCm))

\* mutant: the box is not divided among the pixels
AreaPerPixelWholeBox(opts, pixelsTotal) == BoxAreaCm2(opts)

AreaPerPixel(opts, pixelsTotal) ==
  IF pixelsTotal > 0 THEN RDiv(BoxAreaCm2(opts), RInt(pixelsTotal)) ELSE Zero

Detailed(c, pixelsValid, areaPerPixel) ==
  LET rgb == << RoundDiv(c.rgbSum[1], c.count), RoundDiv(c.rgbSum[2], c.count),
                RoundDiv(c.rgbSum[3], c.count) >>
  IN  [id |-> c.id, rgb |-> rgb, hex |-> rgbToHex(rgb[1], rgb[2], rgb[3]),
       pixelCount |-> c.count,
       percentValid |-> IF pixelsValid > 0 THEN Rat(100 * c.count, pixelsValid) ELSE Zero,
       areaCm2 |-> RMul(RInt(c.count), areaPerPixel)]

\* mutant: a cluster goes ahead of those of its size
RECURSIVE SortByPixelCountAhead(_)
SortByPixelCountAhead(s) ==
  IF s = <<>> THEN <<>>
  ELSE LET init == SortByPixelCountAhead(SubSeq(s, 1, Len(s) - 1))
           c    == s[Len(s)]
           k    == Cardinality({i \in 1..Len(init) : init[i].pixelCount > c.pixelCount})
       IN  SubSeq(init, 1, k) \o << c >> \o SubSeq(init, k + 1, Len(init))

\* kept.sort((a, b) => b.pixelCount - a.pixelCount), a stable sort
RECURSIVE SortByPixelCount(_)
SortByPixelCount(s) ==
  IF s = <<>> THEN <<>>
  ELSE LET init == SortByPixelCount(SubSeq(s, 1, Len(s) - 1))
           c    == s[Len(s)]
           k    == Cardinality({i \in 1..Len(init) : init[i].pixelCount >= c.pixelCount})
       IN  SubSeq(init, 1, k) \o << c >> \o SubSeq(init, k + 1, Len(init))

\* mutant: the reduce adds the pixel counts
AreaSumOfCounts(kept) == RInt(ISum([k \in 1..Len(kept) |-> kept[k].pixelCount]))

\* kept.reduce((s, c) => s + c.areaCm2, 0)
AreaSum(kept) == RSum([k \in 1..Len(kept) |-> kept[k].areaCm2])

\* `labels: null` of the early return.  A label array of the code is never
\* empty (it has width x height > 0 entries), so the empty sequence stands
\* for null without ambiguity.
Null == <<>>

\* src/imageProcessing.js: the percentage policy, no label map.  The id of a
\* result is a ghost field here: the code's results carry none.
analyzeImage(canvas, opts) ==
  IF canvas.width = 0 \/ canvas.height = 0
  THEN [clusters |-> <<>>, totals |-> [pixelsTotal |-> 0, pixelsValid |-> 0, areaCm2 |-> Zero]]
  ELSE
    LET st           == Scan(canvas, opts.alphaThreshold, opts.tolerance)
        pixelsTotal  == canvas.width * canvas.height
        boxAreaCm2   == BoxAreaCm2(opts)
        areaPerPixel == AreaPerPixel(opts, pixelsTotal)
        detailed     == [k \in 1..Len(st.clusters) |->
                           Detailed(st.clusters[k], st.pixelsValid, areaPerPixel)]
        IsKept(c)    == RLe(opts.minAreaPercent, c.percentValid)
        unsorted     == SelectSeq(detailed, IsKept)
        dropped      == SelectSeq(detailed, LAMBDA c : ~IsKept(c))
        kept         == SortByPixelCount(unsorted)
    IN  [clusters |-> kept,
         dropped  |-> dropped,
         totals   |-> [pixelsTotal  |-> pixelsTotal,
                       pixelsValid  |-> st.pixelsValid,
                       pixelsKept   |-> ISum([k \in 1..Len(unsorted) |-> unsorted[k].pixelCount]),
                       areaCm2      |-> AreaSum(kept),
                       boxAreaCm2   |-> boxAreaCm2,
                       areaPerPixel |-> areaPerPixel,
                       droppedCount |-> Len(dropped)]]

\* mutant: the raw cluster id is used as the label of a kept cluster
KeptIndexRaw(kept, rid) ==
  IF \E k \in 1..Len(kept) : kept[k].id = rid THEN rid ELSE -1

\* idToKept.get(rid): the index (from 0) in kept of the cluster with id rid, -1 if none
KeptIndex(kept, rid) ==
  IF \E k \in 1..Len(kept) : kept[k].id = rid
  THEN (CHOOSE k \in 1..Len(kept) : kept[k].id = rid) - 1
  ELSE -1

\* mutant: the pixels of a dropped cluster keep their raw label
FinalLabelsOfAll(kept, rawLabel) ==
  [i \in 1..Len(rawLabel) |->
     IF rawLabel[i] < 0 THEN -1
     ELSE IF KeptIndex(kept, rawLabel[i]) >= 0 THEN ToInt16(KeptIndex(kept, rawLabel[i]))
          ELSE rawLabel[i]]

\* the loop over rawLabel that fills labels
FinalLabels(kept, rawLabel) ==
  [i \in 1..Len(rawLabel) |->
     IF rawLabel[i] < 0 THEN -1 ELSE ToInt16(KeptIndex(kept, rawLabel[i]))]

\* src/unnamed/part_000: the area policy, with the label map
analyzeImageLabels(canvas, opts) ==
  IF canvas.width = 0 \/ canvas.height = 0
  THEN [clusters |-> <<>>, dropped |-> <<>>,
        totals |-> [pixelsTotal |-> 0, pixelsValid |-> 0, pixelsKept |-> 0, areaCm2 |-> Zero,
                    boxAreaCm2 |-> Zero, areaPerPixel |-> Zero, droppedCount |-> 0],
        labels |-> Null, size |-> [width |-> canvas.width, height |-> canvas.height]]
  ELSE
    LET st           == Scan(canvas, opts.alphaThreshold, opts.tolerance)
        pixelsTotal  == canvas.width * canvas.height
        boxAreaCm2   == BoxAreaCm2(opts)
        areaPerPixel == AreaPerPixel(opts, pixelsTotal)
        minArea      == RMax(Zero, opts.minAreaCm2)
        minPixels    == IF RLt(Zero, areaPerPixel) THEN RDiv(minArea, areaPerPixel) ELSE Zero
        detailed     == [k \in 1..Len(st.clusters) |->
                           Detailed(st.clusters[k], st.pixelsValid, areaPerPixel)]
        IsKept(c)    == RLe(minPixels, RInt(c.pixelCount))
        kept         == SortByPixelCount(SelectSeq(detailed, IsKept))
        dropped      == SelectSeq(detailed, LAMBDA c : ~IsKept(c))
        labels       == FinalLabels(kept, st.rawLabel)
    IN  [clusters |-> kept,
         dropped  |-> dropped,
         totals   |-> [pixelsTotal  |-> pixelsTotal,
                       pixelsValid  |-> st.pixelsValid,
                       pixelsKept   |-> Cardinality({i \in 1..Len(labels) : labels[i] >= 0}),
                       areaCm2      |-> AreaSum(kept),
                       boxAreaCm2   |-> boxAreaCm2,
                       areaPerPixel |-> areaPerPixel,
                       droppedCount |-> Len(dropped)],
         labels   |-> labels,
         size     |-> [width |-> canvas.width, height |-> canvas.height]]

(***************************************************************************)
(* calculation.js.                                                         *)
(***************************************************************************)
\* a string that is not a numeral, such as "abc": truthy, and NaN as a number
Text == [n |-> 1, d |-> -2]

\* Number(x): NaN of undefined and of a string that is not a numeral
Number(x) == IF x.d < 0 THEN NaN ELSE x

\* x > 0, false of undefined, of NaN and of a string that is not a numeral
Positive(p) == p.d >= 0 /\ p.n > 0

\* Math.round: of a finite number the nearest integer, halves upwards
Round(p) == IF p.d > 0 THEN RInt((2 * p.n + p.d) \div (2 * p.d)) ELSE p

isFiniteNum(x) == IsFinite(x)

\* mutant: every preset counts as medium
PresetMulFlat(densityPreset) == RInt(1)

\* { low: 0.8, medium: 1.0, high: 1.25 }[densityPreset || "medium"] ?? 1.0
PresetMul(densityPreset) ==
  CASE densityPreset = "low"  -> Rat(4, 5)
    [] densityPreset = "high" -> Rat(5, 4)
    [] OTHER                  -> RInt(1)

\* mutant: a millesimal of the conversion, 1 / yarnMPerKg
g_per_m_singlePerGram(yarnGPerM, yarnMPerKg) ==
  IF isFiniteNum(yarnGPerM) /\ Positive(yarnGPerM) THEN yarnGPerM
  ELSE IF isFiniteNum(yarnMPerKg) /\ Positive(yarnMPerKg)
       THEN RDiv(RInt(1), yarnMPerKg)
       ELSE Rat(1, 2)

\* mutant: the length per mass is looked at first
g_per_m_singleLengthFirst(yarnGPerM, yarnMPerKg) ==
  IF isFiniteNum(yarnMPerKg) /\ Positive(yarnMPerKg)
  THEN RDiv(RInt(1000), yarnMPerKg)
  ELSE IF isFiniteNum(yarnGPerM) /\ Positive(yarnGPerM) THEN yarnGPerM
       ELSE Rat(1, 2)

\* grams per metre of one strand: yarnGPerM, else 1000 / yarnMPerKg, else 0.5
g_per_m_single(yarnGPerM, yarnMPerKg) ==
  IF isFiniteNum(yarnGPerM) /\ Positive(yarnGPerM) THEN yarnGPerM
  ELSE IF isFiniteNum(yarnMPerKg) /\ Positive(yarnMPerKg)
       THEN RDiv(RInt(1000), yarnMPerKg)
       ELSE Rat(1, 2)

\* mutant: a loop takes nine tenths of a cut
loopFactorNineTenths(pileType) == IF pileType = "loop" THEN Rat(9, 10) ELSE RInt(1)

\* pileType === "loop" ? 0.95 : 1.0
loopFactor(pileType) == IF pileType = "loop" THEN Rat(19, 20) ELSE RInt(1)

\* mutant: the stitches per cm are not looked at
advancedPathLinesOnly(p) ==
  /\ p.mode = "advanced"
  /\ isFiniteNum(p.linesPerCm)
  /\ Positive(p.linesPerCm)

\* the condition of the measured path
advancedPath(p) ==
  /\ p.mode = "advanced"
  /\ isFiniteNum(p.linesPerCm) /\ isFiniteNum(p.stitchesPerCm)
  /\ Positive(p.linesPerCm) /\ Positive(p.stitchesPerCm)

computeYarnConstants(p) ==
  LET pile_h_m   == RDiv(RMax(Zero, Number(OrZero(p.pileHeightMm))), RInt(1000))
      s          == RMax(RInt(1), Round(Number(IF p.strands.n = 0 THEN RInt(1) ELSE p.strands)))
      wastage    == RDiv(RMax(Zero, Number(OrZero(p.wastagePercent))), RInt(100))
      L_backing  == RMul(Rat(1, 100), Number(p.linesPerCm))
      stitches_per_cm2 == RMul(Number(p.linesPerCm), Number(p.stitchesPerCm))
      L_pile     == RMul(RMul(RMul(RInt(2), pile_h_m), loopFactor(p.pileType)),
                         stitches_per_cm2)
      pileHeightMul == IF Positive(pile_h_m) THEN RDiv(pile_h_m, Rat(12, 1000)) ELSE RInt(1)
      pileTypeMul   == IF p.pileType = "loop" THEN Rat(19, 20) ELSE RInt(1)
      m_per_m2_single ==
        RMul(RMul(RMul(RInt(1200), PresetMul(p.densityPreset)), pileHeightMul), pileTypeMul)
  IN  [g_per_m_single |-> g_per_m_single(p.yarnGPerM, p.yarnMPerKg),
       strands |-> s,
       wastage |-> wastage,
       L_m_per_cm2_single |->
         IF advancedPath(p) THEN RAdd(L_backing, L_pile)
         ELSE RDiv(m_per_m2_single, RInt(10000))]

\* mutant: the weight with waste is the waste alone
YarnRecordWasteOnly(c, constants) ==
  LET area          == Number(OrZero(c.areaCm2))
      length_single == RMul(area, constants.L_m_per_cm2_single)
      length_all    == RMul(length_single, constants.strands)
      weight_g      == RMul(length_all, constants.g_per_m_single)
      weight_with_waste_g == RMul(weight_g, constants.wastage)
  IN  [id |-> c.id, rgb |-> c.rgb, hex |-> c.hex, pixelCount |-> c.pixelCount,
       percentValid |-> c.percentValid, areaCm2 |-> c.areaCm2,
       yarnLength_m_single |-> length_single,
       yarnLength_m |-> length_all,
       yarnWeight_g |-> weight_g,
       yarnWeightWithWaste_g |-> weight_with_waste_g,
       yarnCost |-> Undefined]

\* the record computeYarnForClusters pushes for the cluster c; it carries no
\* yarnCost: the code computes none, whatever pricePerKg it is given
YarnRecord(c, constants) ==
  LET area          == Number(OrZero(c.areaCm2))
      length_single == RMul(area, constants.L_m_per_cm2_single)
      length_all    == RMul(length_single, constants.strands)
      weight_g      == RMul(length_all, constants.g_per_m_single)
      weight_with_waste_g == RMul(weight_g, RAdd(RInt(1), constants.wastage))
  IN  [id |-> c.id, rgb |-> c.rgb, hex |-> c.hex, pixelCount |-> c.pixelCount,
       percentValid |-> c.percentValid, areaCm2 |-> c.areaCm2,
       yarnLength_m_single |-> length_single,
       yarnLength_m |-> length_all,
       yarnWeight_g |-> weight_g,
       yarnWeightWithWaste_g |-> weight_with_waste_g,
       yarnCost |-> Undefined]

Field(rows, f) == [k \in 1..Len(rows) |-> rows[k][f]]

\* mutant: the total length adds the single-strand lengths
computeYarnForClustersSingle(clusters, constants) ==
  LET results == [k \in 1..Len(clusters) |-> YarnRecord(clusters[k], constants)]
  IN  [perColor |-> results,
       totals |-> [totalArea_cm2 |-> RSum([k \in 1..Len(clusters) |-> OrZero(clusters[k].areaCm2)]),
                   totalLength_m |-> RSum(Field(results, "yarnLength_m_single")),
                   totalWeightWithWaste_g |-> RSum(Field(results, "yarnWeightWithWaste_g")),
                   totalCost |-> Undefined]]

computeYarnForClusters(clusters, constants) ==
  LET results == [k \in 1..Len(clusters) |-> YarnRecord(clusters[k], constants)]
  IN  [perColor |-> results,
       totals |-> [totalArea_cm2 |-> RSum([k \in 1..Len(clusters) |-> OrZero(clusters[k].areaCm2)]),
                   totalLength_m |-> RSum(Field(results, "yarnLength_m")),
                   totalWeightWithWaste_g |-> RSum(Field(results, "yarnWeightWithWaste_g")),
                   totalCost |-> Undefined]]

(***************************************************************************)
(* The inputs of the analysis.                                             *)
(***************************************************************************)
Shapes == { wh \in (0..MaxPixels) \X (0..2) : wh[1] * wh[2] <= MaxPixels }

\* a canvas and the buffer getImageData reads from it, in row-major order
Canvases ==
  UNION { { [width |-> wh[1], height |-> wh[2], data |-> d] :
              d \in [1..(wh[1] * wh[2]) -> Pixels] } : wh \in Shapes }

Tolerances == {0, 20, 40, 100}
AlphaThresholds == {10, 200}
\* the physical box and the minimum-area policy: the defaults (no box, 0.5),
\* and a 2 cm x 2 cm box with a minimum of 30 percent, or of 2 cm2
Physical ==
  { [rugWidthCm |-> 0, rugHeightCm |-> 0, minAreaPercent |-> Rat(1, 2), minAreaCm2 |-> Rat(1, 2)],
    [rugWidthCm |-> 2, rugHeightCm |-> 2, minAreaPercent |-> RInt(30), minAreaCm2 |-> RInt(2)] }

Options ==
  { [alphaThreshold |-> a, tolerance |-> t, minAreaPercent |-> ph.minAreaPercent,
     minAreaCm2 |-> ph.minAreaCm2, rugWidthCm |-> ph.rugWidthCm,
     rugHeightCm |-> ph.rugHeightCm] :
      a \in AlphaThresholds, t \in Tolerances, ph \in Physical }

(***************************************************************************)
(* State.                                                                  *)
(***************************************************************************)
VARIABLES
  canvas,             \* the canvas analyzeImage is called on (previewCanvas)
  opts,               \* the options object of the call
  version,            \* which analyzeImage ran: "none", "percent" or "area"
  result,             \* what it returned
  deployed,           \* which analyzeImage app.js imports: "percent" or "area"
  imageLoaded,        \* appState.imageLoaded
  form,               \* what readForm() returns: the values of the inputs
  lastPerColor,       \* the result rows
  selectedColorIdxs,  \* the selected row indices, from 0
  colorNames,         \* the custom names, as pairs <<hex, name>>
  analysisLabels,     \* the label map of the last analysis, or Null
  lastRenderPayload,  \* what the summary was last rendered from, or Null
  buttons,            \* which of the action buttons are enabled
  calcParams,         \* the argument of a call of computeYarnConstants
  calcConstants,      \* what it returned, or Null
  calcClusters,       \* the clusters given to computeYarnForClusters
  calcYarn,           \* what it returned, or Null
  scanPos,            \* the scan of analyzeImage: the pixel it is at, from 0
  scanSt,             \* its clusters, labels and count of valid pixels
  labelSt,            \* the label stores of analyzeImage: the cell followed, or Null
  presets,            \* the presets kept in localStorage, as loadPresets reads them
  storeCall           \* the last call of savePreset or deletePreset, or Null

analysisVars == << canvas, opts, version, result >>
appVars == << deployed, imageLoaded, form, lastPerColor, selectedColorIdxs, colorNames,
              analysisLabels, lastRenderPayload, buttons >>
calcVars == << calcParams, calcConstants, calcClusters, calcYarn >>
scanVars == << scanPos, scanSt >>
labelVars == << labelSt >>
storeVars == << presets, storeCall >>
vars == << analysisVars, appVars, calcVars, scanVars, labelVars, storeVars >>

NoResult == [clusters |-> <<>>]

\* updateActionButtons()
ActionButtons(selection, rows) ==
  [rename |-> Cardinality(selection) = 1,
   merge  |-> Cardinality(selection) >= 2,
   csv    |-> Len(rows) > 0,
   pdf    |-> Len(rows) > 0]

\* the forms the user fills in, all for a 2 cm x 2 cm rug: the defaults at
\* tolerance 0; measured densities, a loop pile, a price per kg and a strict
\* alpha and area policy at tolerance 40; a skein weight and price only
Forms ==
  { [mode |-> "beginner", densityPreset |-> "medium", linesPerCm |-> Zero, stitchesPerCm |-> Zero,
     pileType |-> "cut", pileHeightMm |-> RInt(12), strands |-> RInt(2),
     wastagePercent |-> RInt(15), yarnGPerM |-> Undefined, yarnMPerKg |-> Undefined,
     yarnPricePerKg |-> Undefined, skeinWeightG |-> Undefined, skeinPrice |-> Undefined,
     alphaThreshold |-> 10, minAreaPercent |-> Rat(1, 2), tolerance |-> 0,
     rugWidthCm |-> 2, rugHeightCm |-> 2],
    [mode |-> "advanced", densityPreset |-> "medium", linesPerCm |-> RInt(2), stitchesPerCm |-> RInt(3),
     pileType |-> "loop", pileHeightMm |-> RInt(10), strands |-> RInt(1),
     wastagePercent |-> RInt(10), yarnGPerM |-> Undefined, yarnMPerKg |-> RInt(2000),
     yarnPricePerKg |-> RInt(20), skeinWeightG |-> Undefined, skeinPrice |-> Undefined,
     alphaThreshold |-> 200, minAreaPercent |-> RInt(30), tolerance |-> 40,
     rugWidthCm |-> 2, rugHeightCm |-> 2],
    [mode |-> "beginner", densityPreset |-> "high", linesPerCm |-> Zero, stitchesPerCm |-> Zero,
     pileType |-> "cut", pileHeightMm |-> RInt(12), strands |-> RInt(2),
     wastagePercent |-> RInt(15), yarnGPerM |-> Rat(3, 10), yarnMPerKg |-> Undefined,
     yarnPricePerKg |-> Undefined, skeinWeightG |-> RInt(100), skeinPrice |-> RInt(10),
     alphaThreshold |-> 10, minAreaPercent |-> Rat(1, 2), tolerance |-> 40,
     rugWidthCm |-> 2, rugHeightCm |-> 2] }

\* the images loaded in the app: 2 x 2, a red, a blue and a dark red pixel
\* and one more of the palette
AppCanvases ==
  { [width |-> 2, height |-> 2, data |-> << Red, Blue, << 169, 0, 0, 255 >>, q >>] :
      q \in Pixels }

Blank == [width |-> 0, height |-> 0, data |-> <<>>]

\* the page as loaded: no image, no rows, the form as filled in
PageLoaded ==
  /\ imageLoaded = FALSE
  /\ lastPerColor = <<>>
  /\ selectedColorIdxs = {}
  /\ colorNames = {}
  /\ analysisLabels = Null
  /\ lastRenderPayload = Null
  /\ buttons = ActionButtons({}, <<>>)

\* no call of calculation.js under way, no scan followed step by step
CalcIdle == calcParams = Null /\ calcConstants = Null /\ calcClusters = <<>> /\ calcYarn = Null
ScanIdle == scanPos = 0 /\ scanSt = Null
\* no label store followed, no preset stored
LabelIdle == labelSt = Null
StoreIdle == presets = <<>> /\ storeCall = Null

Init ==
  /\ canvas \in Canvases
  /\ opts \in Options
  /\ version = "none"
  /\ result = NoResult
  /\ deployed = "percent"
  /\ form = CHOOSE f \in Forms : TRUE
  /\ PageLoaded
  /\ CalcIdle /\ ScanIdle /\ LabelIdle /\ StoreIdle

\* a call of analyzeImage of src/imageProcessing.js
AnalyzePercent ==
  /\ version = "none"
  /\ version' = "percent"
  /\ result' = analyzeImage(canvas, opts)
  /\ UNCHANGED << canvas, opts, appVars, calcVars, scanVars, labelVars, storeVars >>

\* a call of analyzeImage of src/unnamed/part_000
AnalyzeArea ==
  /\ version = "none"
  /\ version' = "area"
  /\ result' = analyzeImageLabels(canvas, opts)
  /\ UNCHANGED << canvas, opts, appVars, calcVars, scanVars, labelVars, storeVars >>

Next == AnalyzePercent \/ AnalyzeArea

Spec == Init /\ [][Next]_vars

(***************************************************************************)
(* app.js: the result list, its selection and the merge of rows.           *)
(***************************************************************************)
\* the options object the click handler passes to analyzeImage; minAreaCm2
\* is not passed, so that the area policy takes its default of 0.5
AnalysisOptions(params) ==
  [alphaThreshold |-> params.alphaThreshold, tolerance |-> params.tolerance,
   minAreaPercent |-> params.minAreaPercent, minAreaCm2 |-> Rat(1, 2),
   rugWidthCm |-> params.rugWidthCm, rugHeightCm |-> params.rugHeightCm]

\* x && ...: undefined, NaN and 0 are falsy
Truthy(p) == p.n # 0

\* the else-branch of the price resolution reads the undeclared identifiers
\* skeinPrice and skeinWeightG: a ReferenceError ends the handler there
PriceThrows(params) ==
  /\ ~(Truthy(params.yarnPricePerKg) /\ Positive(params.yarnPricePerKg))
  /\ Truthy(params.skeinWeightG) /\ Truthy(params.skeinPrice)
  /\ Positive(params.skeinWeightG)

\* lastPerColor.reduce((s, c) => s + (c[f] || 0), 0)
SumOrZero(rows, f) == RSum([k \in 1..Len(rows) |-> OrZero(rows[k][f])])

\* the payload refreshSummaryAfterManualChange() renders and keeps
RefreshedPayload(rows, prev, labels) ==
  LET totalA == SumOrZero(rows, "areaCm2")
      fallbackPixels ==
        IF labels = Null THEN 0 ELSE Cardinality({i \in 1..Len(labels) : labels[i] >= 0})
      fauxTotals ==
        IF prev = Null
        THEN [pixelsValid |-> fallbackPixels, boxAreaCm2 |-> Zero, areaCm2 |-> totalA]
        ELSE IF "boxAreaCm2" \in DOMAIN prev.totals
             THEN [prev.totals EXCEPT !.areaCm2 = totalA]
             ELSE [pixelsTotal |-> prev.totals.pixelsTotal,
                   pixelsValid |-> prev.totals.pixelsValid,
                   boxAreaCm2 |-> Zero, areaCm2 |-> totalA]
  IN  [clusters |-> rows,
       totals |-> fauxTotals,
       dropped |-> <<>>,
       constants |-> Null,
       yarn |-> [totals |-> [totalArea_cm2 |-> totalA,
                             totalLength_m |-> SumOrZero(rows, "yarnLength_m"),
                             totalWeightWithWaste_g |-> SumOrZero(rows, "yarnWeightWithWaste_g"),
                             totalCost |-> SumOrZero(rows, "yarnCost")]]]

SetMin(S) == CHOOSE x \in S : \A y \in S : x <= y
SetMax(S) == CHOOSE x \in S : \A y \in S : y <= x

\* lastPerColor[idx] is a row: idx counts from 0
HasRow(rows, idx) == idx >= 0 /\ idx < Len(rows)

\* lastPerColor.splice(idx, 1)
Splice(rows, idx) == SubSeq(rows, 1, idx) \o SubSeq(rows, idx + 2, Len(rows))

\* mutant: the merge does not add the lengths of the source
AddSourceNoLength(target, src) ==
  [target EXCEPT !.pixelCount = @ + src.pixelCount,
                 !.percentValid = RAdd(@, src.percentValid),
                 !.areaCm2 = RAdd(@, src.areaCm2)]

\* the body of the merge loop: the source's figures added to the target's
AddSource(target, src) ==
  LET cost == IF IsNumber(target.yarnCost) THEN target.yarnCost ELSE Zero
  IN  [target EXCEPT !.pixelCount = @ + src.pixelCount,
                     !.percentValid = RAdd(@, src.percentValid),
                     !.areaCm2 = RAdd(@, src.areaCm2),
                     !.yarnLength_m_single = RAdd(@, src.yarnLength_m_single),
                     !.yarnLength_m = RAdd(@, src.yarnLength_m),
                     !.yarnWeight_g = RAdd(@, src.yarnWeight_g),
                     !.yarnWeightWithWaste_g = RAdd(@, src.yarnWeightWithWaste_g),
                     !.yarnCost = IF IsNumber(src.yarnCost) /\ src.yarnCost # NaN
                                  THEN RAdd(cost, src.yarnCost) ELSE cost]

\* the merge loop, from the highest selected index down to the one after the
\* target; an index with no row is skipped
RECURSIVE MergeLoop(_, _, _)
MergeLoop(rows, targetIdx, sources) ==
  IF sources = {} THEN rows
  ELSE LET idx == SetMax(sources)
       IN  IF ~HasRow(rows, idx) THEN MergeLoop(rows, targetIdx, sources \ {idx})
           ELSE MergeLoop(
                  Splice([rows EXCEPT ![targetIdx + 1] = AddSource(@, rows[idx + 1])], idx),
                  targetIdx, sources \ {idx})

\* the names typed into the rename input; the empty one removes a name
Names == {"", "wool"}
\* the largest number of colours that carry a custom name at a time
MaxNames == 1

InitApp ==
  /\ canvas = Blank
  /\ opts = CHOOSE o \in Options : TRUE
  /\ version = "none"
  /\ result = NoResult
  /\ deployed \in {"percent", "area"}
  /\ form \in Forms
  /\ PageLoaded
  /\ CalcIdle /\ ScanIdle /\ LabelIdle /\ StoreIdle

\* imageInput change, once the image is drawn on the preview canvas
ImageLoad(c) ==
  /\ canvas' = c
  /\ analysisLabels' = Null
  /\ imageLoaded' = TRUE
  /\ lastPerColor' = <<>>
  /\ selectedColorIdxs' = {}
  /\ lastRenderPayload' = Null
  \* renderLegend returns before updateActionButtons() when there are no rows
  /\ UNCHANGED << calcVars, scanVars, labelVars, storeVars, opts, version, result, deployed, form, colorNames, buttons >>

\* the user edits the inputs of the form
SetForm(f) ==
  /\ f # form
  /\ form' = f
  /\ UNCHANGED << analysisVars, calcVars, scanVars, labelVars, storeVars, deployed, imageLoaded, lastPerColor, selectedColorIdxs,
                  colorNames, analysisLabels, lastRenderPayload, buttons >>

\* the analyzeImage that app.js imports, called on the preview canvas
ImportedAnalyzeImage(cv, options) ==
  IF deployed = "percent" THEN analyzeImage(cv, options) ELSE analyzeImageLabels(cv, options)

\* analyzeButton click, at the resolution "auto"; res and yarn are the
\* handler's constants of these names
AnalyzeClick ==
  /\ imageLoaded
  /\ form.rugWidthCm > 0 /\ form.rugHeightCm > 0
  /\ \E res \in { ImportedAnalyzeImage(canvas, AnalysisOptions(form)) } :
       \E constants \in { computeYarnConstants(form) } :
         \E yarn \in { computeYarnForClusters(res.clusters, constants) } :
           /\ analysisLabels' = IF "labels" \in DOMAIN res THEN res.labels ELSE Null
           /\ IF PriceThrows(form)
              THEN UNCHANGED << lastPerColor, selectedColorIdxs, lastRenderPayload, buttons >>
              ELSE /\ lastPerColor' = yarn.perColor
                   /\ selectedColorIdxs' = {}
                   /\ lastRenderPayload' =
                        [clusters |-> res.clusters, totals |-> res.totals,
                         dropped |-> IF "dropped" \in DOMAIN res THEN res.dropped ELSE Null,
                         constants |-> constants, yarn |-> [totals |-> yarn.totals]]
                   /\ buttons' = ActionButtons({}, yarn.perColor)
  /\ UNCHANGED << analysisVars, calcVars, scanVars, labelVars, storeVars, deployed, imageLoaded, form, colorNames >>

\* what a change of the selection leaves alone
SelectionOnly ==
  UNCHANGED << analysisVars, calcVars, scanVars, labelVars, storeVars, deployed, imageLoaded, form, lastPerColor, colorNames,
               analysisLabels, lastRenderPayload >>

Toggle(selection, idx) ==
  IF idx \in selection THEN selection \ {idx} ELSE selection \cup {idx}

\* a click on the row idx of the table: single selection
RowClick(idx) ==
  /\ HasRow(lastPerColor, idx)
  /\ selectedColorIdxs' = {idx}
  /\ buttons' = ActionButtons(selectedColorIdxs', lastPerColor)
  /\ SelectionOnly

\* a Ctrl/Cmd click on the row idx: toggleSelectRow
RowCtrlClick(idx) ==
  /\ HasRow(lastPerColor, idx)
  /\ selectedColorIdxs' = Toggle(selectedColorIdxs, idx)
  /\ buttons' = ActionButtons(selectedColorIdxs', lastPerColor)
  /\ SelectionOnly

\* a Shift click on the row idx: rangeSelectRow, from the highest selected
\* index to idx, over the rows the table has
RowShiftClick(idx) ==
  LET anchor == IF selectedColorIdxs = {} THEN idx ELSE SetMax(selectedColorIdxs)
      lo     == IF anchor <= idx THEN anchor ELSE idx
      hi     == IF anchor <= idx THEN idx ELSE anchor
  IN  /\ HasRow(lastPerColor, idx)
      /\ selectedColorIdxs' = { i \in lo..hi : HasRow(lastPerColor, i) }
      /\ buttons' = ActionButtons(selectedColorIdxs', lastPerColor)
      /\ SelectionOnly

\* a click on the legend item idx: a toggle, then renderLegend
LegendClick(idx) ==
  /\ HasRow(lastPerColor, idx)
  /\ selectedColorIdxs' = Toggle(selectedColorIdxs, idx)
  /\ buttons' = ActionButtons(selectedColorIdxs', lastPerColor)
  /\ SelectionOnly

\* a click on the pixel i of the preview, with or without Ctrl/Cmd; the
\* buttons follow only through renderLegend, that is when there are rows
CanvasClick(i, multi) ==
  /\ analysisLabels # Null /\ imageLoaded
  /\ i \in 1..Len(analysisLabels)
  /\ analysisLabels[i] >= 0
  /\ selectedColorIdxs' = IF multi THEN Toggle(selectedColorIdxs, analysisLabels[i])
                                   ELSE {analysisLabels[i]}
  /\ buttons' = IF Len(lastPerColor) > 0
                THEN ActionButtons(selectedColorIdxs', lastPerColor) ELSE buttons
  /\ SelectionOnly

\* renameBtn click, the input holding name; a disabled button gets no click
RenameClick(name) ==
  /\ buttons.rename
  /\ Cardinality(selectedColorIdxs) = 1
  /\ LET idx == SetMin(selectedColorIdxs)
     IN  /\ HasRow(lastPerColor, idx)
         /\ LET hex == lastPerColor[idx + 1].hex
                others == { nm \in colorNames : nm[1] # hex }
            IN  colorNames' = IF name # "" THEN others \cup { << hex, name >> } ELSE others
  /\ Cardinality(colorNames') <= MaxNames
  /\ buttons' = ActionButtons(selectedColorIdxs, lastPerColor)
  /\ lastRenderPayload' = RefreshedPayload(lastPerColor, lastRenderPayload, analysisLabels)
  /\ UNCHANGED << analysisVars, calcVars, scanVars, labelVars, storeVars, deployed, imageLoaded, form, lastPerColor,
                  selectedColorIdxs, analysisLabels >>

\* mergeBtn click: the selected rows merged into the lowest selected one,
\* the table, the legend and the buttons re-rendered, the summary refreshed
MergeClick ==
  /\ buttons.merge
  /\ Cardinality(selectedColorIdxs) >= 2
  /\ LET targetIdx == SetMin(selectedColorIdxs)
         sources   == selectedColorIdxs \ {targetIdx}
         merged    == MergeLoop(lastPerColor, targetIdx, sources)
         removed   == { lastPerColor[idx + 1].hex : idx \in { i \in sources : HasRow(lastPerColor, i) } }
     IN  /\ HasRow(lastPerColor, targetIdx)
         /\ lastPerColor' = merged
         /\ colorNames' = { nm \in colorNames : nm[1] \notin removed }
         /\ selectedColorIdxs' = {targetIdx}
         /\ buttons' = ActionButtons({targetIdx}, merged)
         /\ lastRenderPayload' = RefreshedPayload(merged, lastRenderPayload, analysisLabels)
  /\ UNCHANGED << analysisVars, calcVars, scanVars, labelVars, storeVars, deployed, imageLoaded, form, analysisLabels >>

RowIdxs == 0..(MaxPixels - 1)

NextApp ==
  \/ \E c \in AppCanvases : ImageLoad(c)
  \/ \E f \in Forms : SetForm(f)
  \/ AnalyzeClick
  \/ \E idx \in RowIdxs : RowClick(idx)
  \/ \E idx \in RowIdxs : RowCtrlClick(idx)
  \/ \E idx \in RowIdxs : RowShiftClick(idx)
  \/ \E idx \in RowIdxs : LegendClick(idx)
  \/ \E i \in 1..MaxPixels, multi \in BOOLEAN : CanvasClick(i, multi)
  \/ \E name \in Names : RenameClick(name)
  \/ MergeClick

SpecApp == InitApp /\ [][NextApp]_vars

(***************************************************************************)
(* calculation.js called on its own, on arguments of every kind.           *)
(***************************************************************************)
Infinity == [n |-> 1, d |-> 0]

\* the arguments of computeYarnConstants: missing, zero, negative, NaN,
\* infinite and non-numeric values beside the usable ones
CalcInputs ==
  [mode           : {"beginner", "advanced"},
   densityPreset  : {"", "low", "medium", "high", "dense"},
   linesPerCm     : {Undefined, RInt(-1), RInt(2)},
   stitchesPerCm  : {NaN, Zero, RInt(3)},
   pileType       : {"cut", "loop"},
   pileHeightMm   : {Undefined, RInt(-5), Zero, RInt(10)},
   strands        : {Undefined, Text, RInt(2)},
   wastagePercent : {RInt(-5), RInt(15)},
   yarnGPerM      : {Undefined, Infinity, Rat(3, 10)},
   yarnMPerKg     : {Undefined, RInt(-1), RInt(2500)}]

\* a cluster as analyzeImage returns it, of area a
ClusterOfArea(i, a) ==
  [id |-> i, rgb |-> << 255, 0, 0 >>, hex |-> rgbToHex(255, 0, 0), pixelCount |-> i + 1,
   percentValid |-> RInt(50), areaCm2 |-> a]

\* the cluster lists given to computeYarnForClusters: areas missing, 0, 3/2, 2
ClusterLists ==
  { <<>>,
    << ClusterOfArea(0, Rat(3, 2)) >>,
    << ClusterOfArea(0, Undefined), ClusterOfArea(1, RInt(2)) >>,
    << ClusterOfArea(0, RInt(2)), ClusterOfArea(1, Zero), ClusterOfArea(2, Rat(3, 2)) >> }

InitCalc ==
  /\ canvas = Blank
  /\ opts = CHOOSE o \in Options : TRUE
  /\ version = "none"
  /\ result = NoResult
  /\ deployed = "percent"
  /\ form = CHOOSE f \in Forms : TRUE
  /\ PageLoaded
  /\ ScanIdle /\ LabelIdle /\ StoreIdle
  /\ calcParams \in CalcInputs
  /\ calcConstants = Null
  /\ calcClusters = <<>>
  /\ calcYarn = Null

\* a call of computeYarnConstants
CallComputeYarnConstants ==
  /\ calcConstants = Null
  /\ calcConstants' = computeYarnConstants(calcParams)
  /\ UNCHANGED << analysisVars, appVars, scanVars, labelVars, storeVars, calcParams, calcClusters, calcYarn >>

\* a call of computeYarnForClusters with the constants returned
CallComputeYarnForClusters(clusters) ==
  /\ calcConstants # Null /\ calcYarn = Null
  /\ calcClusters' = clusters
  /\ calcYarn' = computeYarnForClusters(clusters, calcConstants)
  /\ UNCHANGED << analysisVars, appVars, scanVars, labelVars, storeVars, calcParams, calcConstants >>

NextCalc ==
  \/ CallComputeYarnConstants
  \/ \E clusters \in ClusterLists : CallComputeYarnForClusters(clusters)

SpecCalc == InitCalc /\ [][NextCalc]_vars

(***************************************************************************)
(* The scan of analyzeImage, one iteration of its loop at a time.          *)
(***************************************************************************)
\* the options the scan reads are alphaThreshold and tolerance
ScanOptions == { o \in Options : o.rugWidthCm = 0 }

InitScan ==
  /\ canvas \in Canvases
  /\ opts \in ScanOptions
  /\ version = "none"
  /\ result = NoResult
  /\ deployed = "percent"
  /\ form = CHOOSE f \in Forms : TRUE
  /\ PageLoaded
  /\ CalcIdle /\ LabelIdle /\ StoreIdle
  /\ scanPos = 0
  /\ scanSt = ScanStart(canvas)

\* the body of `for (let i = 0; i < data.length; i += 4)` for pixel scanPos
ScanIteration ==
  /\ scanPos < Len(canvas.data)
  /\ scanSt' = ScanPixel(scanSt, canvas.data[scanPos + 1], scanPos, opts.alphaThreshold,
                         deltaEThreshold(opts.tolerance))
  /\ scanPos' = scanPos + 1
  /\ UNCHANGED << analysisVars, appVars, calcVars, labelVars, storeVars >>

NextScan == ScanIteration

SpecScan == InitScan /\ [][NextScan]_vars

(***************************************************************************)
(* The label stores of analyzeImage (src/unnamed/part_000), followed for   *)
(* one valid pixel: the store into rawLabel during the scan, the filter    *)
(* and the sort, and the store into labels.  The list of clusters is       *)
(* followed by its length only.                                            *)
(***************************************************************************)

\* clusters.length when the scan reaches the pixel
ClusterCounts == {0, 1, 2, 32767, 32768, 32769, 65535, 65536, 65537}

\* how many of the first clusters the filter drops: the clusters of fewer
\* pixels than minPixels, the others having the same pixelCount
DroppedFirst == {0, 1, 2}

\* idToKept.has(rid) ? idToKept.get(rid) : -1, when the clusters from id
\* `first` on are kept and the sort, stable, leaves them in the order of their ids
KeptPosition(first, length, rid) ==
  IF rid >= first /\ rid < length THEN rid - first ELSE -1

InitLabel ==
  /\ canvas = Blank
  /\ opts = CHOOSE o \in Options : TRUE
  /\ version = "none"
  /\ result = NoResult
  /\ deployed = "percent"
  /\ form = CHOOSE f \in Forms : TRUE
  /\ PageLoaded
  /\ CalcIdle /\ ScanIdle /\ StoreIdle
  /\ \E n \in ClusterCounts :
       labelSt = [stage |-> "scan", length |-> n, cluster |-> -1, raw |-> -1,
                  first |-> 0, label |-> -1]

\* the else branch of the scan: `const id = clusters.length; clusters.push(..);
\* rawLabel[idx] = id`
StoreNewCluster ==
  /\ labelSt # Null /\ labelSt.stage = "scan"
  /\ labelSt' = [labelSt EXCEPT !.stage = "scanned", !.length = labelSt.length + 1,
                                !.cluster = labelSt.length, !.raw = ToInt16(labelSt.length)]
  /\ UNCHANGED << analysisVars, appVars, calcVars, scanVars, storeVars >>

\* the then branch of the scan: `rawLabel[idx] = bestIdx`
StoreAdmitted(bestIdx) ==
  /\ labelSt # Null /\ labelSt.stage = "scan"
  /\ bestIdx >= 0 /\ bestIdx < labelSt.length
  /\ labelSt' = [labelSt EXCEPT !.stage = "scanned", !.cluster = bestIdx, !.raw = ToInt16(bestIdx)]
  /\ UNCHANGED << analysisVars, appVars, calcVars, scanVars, storeVars >>

\* the filter by minPixels and the sort of kept
FilterAndSort(first) ==
  /\ labelSt # Null /\ labelSt.stage = "scanned"
  /\ first <= labelSt.length
  /\ labelSt' = [labelSt EXCEPT !.stage = "filtered", !.first = first]
  /\ UNCHANGED << analysisVars, appVars, calcVars, scanVars, storeVars >>

\* the loop over rawLabel, at the pixel: `if (rid < 0) labels[i] = -1` else
\* `labels[i] = (mapped ?? -1)`
MapLabel ==
  /\ labelSt # Null /\ labelSt.stage = "filtered"
  /\ labelSt' = [labelSt EXCEPT !.stage = "mapped",
                                !.label = IF labelSt.raw < 0 THEN -1
                                          ELSE ToInt16(KeptPosition(labelSt.first, labelSt.length,
                                                                    labelSt.raw))]
  /\ UNCHANGED << analysisVars, appVars, calcVars, scanVars, storeVars >>

NextLabel ==
  \/ StoreNewCluster
  \/ \E bestIdx \in ClusterCounts : StoreAdmitted(bestIdx)
  \/ \E first \in DroppedFirst : FilterAndSort(first)
  \/ MapLabel

SpecLabel == InitLabel /\ [][NextLabel]_vars

(***************************************************************************)
(* The preset store of src/storage.js: the list under PRESETS_KEY in       *)
(* localStorage, written by savePreset and deletePreset.                   *)
(***************************************************************************)

\* the names given to savePreset and deletePreset, the settings readForm
\* returns (two of its fields), and the values of Date.now()
PresetNames == {"a", "b", "c"}
PresetSettings == [wastagePercent : {RInt(15)}, yarnGPerM : {Undefined, Rat(3, 10)}]
Times == {1, 2}

\* what JSON.stringify writes for a number that is not finite
JsonNull == [n |-> 0, d |-> -3]

\* JSON.parse(JSON.stringify(obj)) of an object of numbers: the keys holding
\* undefined are left out, NaN and the infinities become null
JsonObject(obj) ==
  [k \in { f \in DOMAIN obj : obj[f] # Undefined } |->
     IF IsFinite(obj[k]) THEN obj[k] ELSE JsonNull]

\* JSON.parse(JSON.stringify(presets))
JsonPresets(list) ==
  [i \in 1..Len(list) |->
     [name |-> list[i].name, settings |-> JsonObject(list[i].settings), savedAt |-> list[i].savedAt]]

\* obj[k] of a parsed object
ReadField(obj, k) == IF k \in DOMAIN obj THEN obj[k] ELSE Undefined

\* loadPresets(): the list the store holds, [] when there is none
loadPresets == presets

\* presets.findIndex(p => p.name === name), from 1, 0 for -1
FindIndex(list, name) ==
  IF \E i \in 1..Len(list) : list[i].name = name
  THEN CHOOSE i \in 1..Len(list) :
         list[i].name = name /\ \A j \in 1..(i - 1) : list[j].name # name
  ELSE 0

\* mutant: the payload is always pushed
PresetsWithPushed(list, name, settings, now) ==
  Append(list, [name |-> name, settings |-> settings, savedAt |-> now])

\* `if (idx >= 0) presets[idx] = payload; else presets.push(payload)`
PresetsWith(list, name, settings, now) ==
  LET idx     == FindIndex(list, name)
      payload == [name |-> name, settings |-> settings, savedAt |-> now]
  IN IF idx > 0 THEN [list EXCEPT ![idx] = payload] ELSE Append(list, payload)

\* loadPresets().filter(p => p.name !== name)
PresetsWithout(list, name) == SelectSeq(list, LAMBDA p : p.name # name)

InitStore ==
  /\ canvas = Blank
  /\ opts = CHOOSE o \in Options : TRUE
  /\ version = "none"
  /\ result = NoResult
  /\ deployed = "percent"
  /\ form = CHOOSE f \in Forms : TRUE
  /\ PageLoaded
  /\ CalcIdle /\ ScanIdle /\ LabelIdle
  /\ presets = <<>>
  /\ storeCall = Null

\* savePreset(name, settings) at the time now; written tells whether
\* localStorage.setItem returned or threw (the catch block is empty)
savePreset(name, settings, now, written) ==
  /\ presets' = IF written THEN JsonPresets(PresetsWith(loadPresets, name, settings, now))
                ELSE presets
  /\ storeCall' = [op |-> "save", name |-> name, settings |-> settings, written |-> written]
  /\ UNCHANGED << analysisVars, appVars, calcVars, scanVars, labelVars >>

\* deletePreset(name)
deletePreset(name, written) ==
  /\ presets' = IF written THEN JsonPresets(PresetsWithout(loadPresets, name)) ELSE presets
  /\ storeCall' = [op |-> "delete", name |-> name, written |-> written]
  /\ UNCHANGED << analysisVars, appVars, calcVars, scanVars, labelVars >>

NextStore ==
  \/ \E name \in PresetNames, settings \in PresetSettings, now \in Times, written \in BOOLEAN :
       savePreset(name, settings, now, written)
  \/ \E name \in PresetNames, written \in BOOLEAN : deletePreset(name, written)

SpecStore == InitStore /\ [][NextStore]_vars

(***************************************************************************)
(* Properties of analyzeImage.                                             *)
(***************************************************************************)
Analyzed == version # "none"
NonEmpty == canvas.width > 0 /\ canvas.height > 0
PixelIdx == 1..Len(canvas.data)

\* the scan of the state's canvas; its rawLabel is the cluster id given to
\* each pixel
ScanNow == Scan(canvas, opts.alphaThreshold, opts.tolerance)

\* kept and dropped results of a non-empty canvas
AllClusters(r) == r.clusters \o r.dropped

\* the analysis of the state's canvas by the version that ran, at tolerance t
RunAt(t) ==
  IF version = "percent" THEN analyzeImage(canvas, [opts EXCEPT !.tolerance = t])
  ELSE analyzeImageLabels(canvas, [opts EXCEPT !.tolerance = t])

\* C1, as claimed: with the tolerance raised and everything else fixed, the
\* scan never creates more clusters (kept plus dropped).
C1_MonotoneInTolerance ==
  (Analyzed /\ NonEmpty) =>
    \A t2 \in Tolerances :
      t2 >= opts.tolerance => Len(AllClusters(RunAt(t2))) <= Len(AllClusters(result))

\* C1, amended: raising the tolerance never creates more clusters when the
\* buffer holds at most three valid pixels.
C1_MonotoneUpToThreeValid ==
  (Analyzed /\ NonEmpty /\ result.totals.pixelsValid <= 3) =>
    \A t2 \in Tolerances :
      t2 >= opts.tolerance => Len(AllClusters(RunAt(t2))) <= Len(AllClusters(result))

\* three valid pixels, and a looser tolerance that merges two of their clusters
C1_Witness ==
  /\ Analyzed /\ NonEmpty /\ result.totals.pixelsValid = 3
  /\ \E t2 \in Tolerances :
       t2 > opts.tolerance /\ Len(AllClusters(RunAt(t2))) < Len(AllClusters(result))

\* C3: pixelsTotal is width x height; pixelsValid plus the pixels with alpha <=
\* alphaThreshold is pixelsTotal; such a pixel is given no cluster, and the
\* clusters are those of the scan of the valid pixels alone.
C3_PixelBookkeeping ==
  (Analyzed /\ NonEmpty) =>
    LET invalid   == {i \in PixelIdx : canvas.data[i][4] <= opts.alphaThreshold}
        validData == SelectSeq(canvas.data, LAMBDA px : px[4] > opts.alphaThreshold)
        all       == AllClusters(result)
        scan      == ScanNow
    IN  /\ result.totals.pixelsTotal = canvas.width * canvas.height
        /\ result.totals.pixelsValid + Cardinality(invalid) = result.totals.pixelsTotal
        /\ ISum([k \in 1..Len(all) |-> all[k].pixelCount]) = result.totals.pixelsValid
        /\ \A i \in invalid : scan.rawLabel[i] = -1
        /\ scan.clusters =
             Scan([width |-> Len(validData), height |-> 1, data |-> validData],
                  opts.alphaThreshold, opts.tolerance).clusters

\* valid and invalid pixels side by side, one of them exactly at the threshold
C3_Witness ==
  /\ Analyzed /\ NonEmpty
  /\ \E i, j \in PixelIdx :
       /\ canvas.data[i][4] = opts.alphaThreshold
       /\ canvas.data[j][4] > opts.alphaThreshold
       /\ i < j
  /\ result.totals.pixelsValid >= 2
  /\ Len(AllClusters(result)) = 2

\* r is Math.round(sum / n): the integer with sum/n - 1/2 < r <= sum/n + 1/2
IsRoundedMean(r, sum, n) == 2 * sum - n < 2 * r * n /\ 2 * r * n <= 2 * sum + n

\* the sum of channel k over the pixels that raw gives to cluster id
ChannelSum(raw, id, k) ==
  ISum([j \in PixelIdx |-> IF raw[j] = id THEN canvas.data[j][k] ELSE 0])

\* C4: every returned cluster, kept or dropped, reports the rounded mean, per
\* channel, of exactly the pixels the scan admitted to it, and their number.
C4_RepresentativeColour ==
  (Analyzed /\ NonEmpty) =>
    LET raw == ScanNow.rawLabel
        all == AllClusters(result)
    IN  \A c \in {all[k] : k \in 1..Len(all)} :
          LET n == Cardinality({i \in PixelIdx : raw[i] = c.id})
          IN  /\ c.pixelCount = n
              /\ n > 0
              /\ \A k \in 1..3 : IsRoundedMean(c.rgb[k], ChannelSum(raw, c.id, k), n)

\* a cluster of several pixels whose mean red falls on a half
C4_Witness ==
  /\ Analyzed /\ NonEmpty
  /\ \E k \in 1..Len(result.clusters) :
       /\ result.clusters[k].pixelCount = 2
       /\ ChannelSum(ScanNow.rawLabel, result.clusters[k].id, 1) % 2 = 1

\* C5: totals.areaCm2 is the sum of areaCm2 over the kept clusters, and of
\* nothing else.
C5_AreaSum ==
  Analyzed =>
    result.totals.areaCm2 = RSum([k \in 1..Len(result.clusters) |-> result.clusters[k].areaCm2])

\* kept and dropped clusters, all with a positive area
C5_Witness ==
  /\ Analyzed /\ NonEmpty
  /\ Len(result.clusters) >= 1 /\ Len(result.dropped) >= 2
  /\ RLt(Zero, result.dropped[1].areaCm2)
  /\ RLt(Zero, result.totals.areaCm2)

\* the distinct colours of the canvas, and whether all its pixels are opaque
Colours == {<< canvas.data[i][1], canvas.data[i][2], canvas.data[i][3] >> : i \in PixelIdx}
FullyOpaque == \A i \in PixelIdx : canvas.data[i][4] = 255
PixelsOfColour(rgb) ==
  Cardinality({i \in PixelIdx :
                 << canvas.data[i][1], canvas.data[i][2], canvas.data[i][3] >> = rgb})

\* a fully opaque canvas of exactly two colours farther apart than the
\* admission threshold
TwoFarColours ==
  /\ NonEmpty /\ FullyOpaque
  /\ Cardinality(Colours) = 2
  /\ \A p, q \in Colours :
       p # q => ~WithinThreshold(deltaE76(rgbToLab(p[1], p[2], p[3]),
                                          [sum |-> rgbToLab(q[1], q[2], q[3]), n |-> 1]),
                                 deltaEThreshold(opts.tolerance))

\* the figures C6 gives for the cluster of one colour
TwoColourFigures(c) ==
  /\ c.pixelCount = PixelsOfColour(c.rgb)
  /\ c.pixelCount > 0
  /\ c.percentValid = Rat(100 * c.pixelCount, result.totals.pixelsValid)
  /\ c.areaCm2 = Rat(c.pixelCount * opts.rugWidthCm * opts.rugHeightCm,
                     result.totals.pixelsTotal)

\* the 2 x 2 image of two red and two blue pixels, tolerance 0, a 2 cm x 2 cm box
RedBlueScenario ==
  /\ canvas.width = 2 /\ canvas.height = 2
  /\ Colours = { << 255, 0, 0 >>, << 0, 0, 255 >> }
  /\ FullyOpaque
  /\ PixelsOfColour(<< 255, 0, 0 >>) = 2
  /\ opts.tolerance = 0 /\ opts.alphaThreshold = 10
  /\ opts.rugWidthCm = 2 /\ opts.rugHeightCm = 2

\* C6, as claimed: two far colours give exactly 2 kept clusters and none
\* dropped, each with the pixel count, percentage and area of its colour.
C6_TwoKeptClusters ==
  (Analyzed /\ TwoFarColours) =>
    /\ Len(result.clusters) = 2
    /\ Len(result.dropped) = 0
    /\ \A k \in 1..Len(result.clusters) : TwoColourFigures(result.clusters[k])

\* C6, amended: two far colours give exactly 2 clusters, kept or dropped by
\* the minimum-area policy, each with the pixel count, percentage and area of
\* its colour; in the red and blue scenario both are kept, with 2 pixels, 50
\* percent and 2 cm2 each, in every order of the four pixels.
C6_TwoClusters ==
  (Analyzed /\ TwoFarColours) =>
    LET all == AllClusters(result)
    IN  /\ Len(all) = 2
        /\ all[1].rgb # all[2].rgb
        /\ \A k \in 1..Len(all) : TwoColourFigures(all[k])
        /\ RedBlueScenario =>
             /\ Len(result.clusters) = 2
             /\ \A k \in 1..2 :
                  /\ result.clusters[k].pixelCount = 2
                  /\ result.clusters[k].percentValid = RInt(50)
                  /\ result.clusters[k].areaCm2 = RInt(2)

\* the scenario, analysed, with a blue pixel first
C6_Witness ==
  /\ Analyzed /\ TwoFarColours /\ RedBlueScenario
  /\ canvas.data[1] = Blue /\ canvas.data[4] = Blue

\* C7: the label map of a non-empty canvas has one entry per pixel; the entry
\* is the index (from 0) in the sorted kept list of the cluster the pixel was
\* admitted to, and -1 exactly when the pixel is invalid or its cluster dropped.
C7_LabelMap ==
  (version = "area" /\ NonEmpty) =>
    /\ result.labels # Null
    /\ DOMAIN result.labels = 1..(canvas.width * canvas.height)
    /\ LET raw == ScanNow.rawLabel
       IN  \A i \in PixelIdx :
             LET label == result.labels[i]
             IN  /\ label = -1 <=>
                      \/ canvas.data[i][4] <= opts.alphaThreshold
                      \/ \E k \in 1..Len(result.dropped) : result.dropped[k].id = raw[i]
                 /\ label # -1 =>
                      /\ label \in 0..(Len(result.clusters) - 1)
                      /\ result.clusters[label + 1].id = raw[i]

\* a label map with an invalid pixel, a pixel of a dropped cluster, and a kept
\* cluster whose index in the sorted list is not its id
C7_Witness ==
  /\ version = "area" /\ NonEmpty
  /\ \E i, j, l \in PixelIdx :
       /\ canvas.data[i][4] <= opts.alphaThreshold
       /\ ScanNow.rawLabel[j] >= 0 /\ result.labels[j] = -1
       /\ result.labels[l] >= 0 /\ result.labels[l] # ScanNow.rawLabel[l]

\* C8: a canvas of zero width or height gives no kept cluster and zero totals;
\* a canvas without a valid pixel gives no cluster at all, pixelsValid 0 and
\* area 0, and none of its figures is the result of a division by zero.
C8_DegenerateInput ==
  Analyzed =>
    /\ ~NonEmpty =>
         /\ result.clusters = <<>>
         /\ result.totals.pixelsTotal = 0
         /\ result.totals.pixelsValid = 0
         /\ result.totals.areaCm2 = Zero
    /\ (NonEmpty /\ \A i \in PixelIdx : canvas.data[i][4] <= opts.alphaThreshold) =>
         /\ result.clusters = <<>>
         /\ result.dropped = <<>>
         /\ result.totals.pixelsValid = 0
         /\ result.totals.areaCm2 = Zero
         /\ IsFinite(result.totals.areaPerPixel)
         /\ IsFinite(result.totals.boxAreaCm2)

\* a canvas of several pixels, none of them valid, with a physical box
C8_Witness ==
  /\ Analyzed /\ NonEmpty
  /\ Len(canvas.data) >= 2
  /\ \A i \in PixelIdx : canvas.data[i][4] <= opts.alphaThreshold
  /\ opts.rugWidthCm > 0

(***************************************************************************)
(* Properties of the result list of the app.                               *)
(***************************************************************************)
\* a cost that is absent counts as 0 in an aggregate, as in the summary
CostOrZero(x) == IF IsNumber(x) THEN x ELSE Zero

\* the aggregates the summary shows, of a payload it was rendered from
ShownAggregates(payload) ==
  [area   |-> payload.yarn.totals.totalArea_cm2,
   length |-> payload.yarn.totals.totalLength_m,
   weight |-> payload.yarn.totals.totalWeightWithWaste_g,
   cost   |-> CostOrZero(payload.yarn.totals.totalCost)]

\* the sums of the fields over the records of a list
RecordSums(rows) ==
  [area   |-> RSum(Field(rows, "areaCm2")),
   length |-> RSum(Field(rows, "yarnLength_m")),
   weight |-> RSum(Field(rows, "yarnWeightWithWaste_g")),
   cost   |-> RSum([k \in 1..Len(rows) |-> CostOrZero(rows[k].yarnCost)])]

\* a row that a merge has written: only a merge gives a row a numeric cost
MergedRow(r) == IsNumber(r.yarnCost)

\* C9: whenever a summary is shown, after an analysis and after any merges,
\* its aggregate area, total length, total weight with wastage and total
\* cost (an absent cost counting as 0) are the sums of areaCm2, yarnLength_m,
\* yarnWeightWithWaste_g and the cost over the rows of the list, the area of
\* the analysis totals too; and a merge leaves each aggregate as it was.
C9_TotalsAreSums ==
  /\ [](lastRenderPayload # Null =>
          /\ ShownAggregates(lastRenderPayload) = RecordSums(lastPerColor)
          /\ lastRenderPayload.totals.areaCm2 = RecordSums(lastPerColor).area)
  /\ [][MergeClick =>
          ShownAggregates(lastRenderPayload') = ShownAggregates(lastRenderPayload)]_vars

\* a summary refreshed by a merge that left two rows or more, yarn on them
C9_Witness ==
  /\ lastRenderPayload # Null
  /\ lastRenderPayload.constants = Null
  /\ Len(lastPerColor) >= 2
  /\ \E k \in 1..Len(lastPerColor) : MergedRow(lastPerColor[k])
  /\ RLt(Zero, ShownAggregates(lastRenderPayload).length)
  /\ RLt(Zero, ShownAggregates(lastRenderPayload).weight)

\* the sum of a rational field, and of the pixel counts, over the rows at the
\* indices S of a list
RECURSIVE SumAt(_, _, _)
SumAt(rows, S, f) ==
  IF S = {} THEN Zero
  ELSE LET i == SetMin(S)
       IN  RAdd(IF f = "yarnCost" THEN CostOrZero(rows[i + 1][f]) ELSE rows[i + 1][f],
                SumAt(rows, S \ {i}, f))

RECURSIVE CountAt(_, _)
CountAt(rows, S) ==
  IF S = {} THEN 0 ELSE LET i == SetMin(S) IN rows[i + 1].pixelCount + CountAt(rows, S \ {i})

SummedFields ==
  { "percentValid", "areaCm2", "yarnLength_m_single", "yarnLength_m", "yarnWeight_g",
    "yarnWeightWithWaste_g", "yarnCost" }

\* the k-th smallest (k from 1) of a set of indices
RECURSIVE Nth(_, _)
Nth(S, k) == IF k = 1 THEN SetMin(S) ELSE Nth(S \ {SetMin(S)}, k - 1)

\* what a merge of the rows selected in the list before, into the lowest of
\* them, leaves: `after` and `selection` are the list and the selection after
MergeOutcome(before, selected, after, selection) ==
  LET merged    == { i \in selected : HasRow(before, i) }
      survivor  == SetMin(merged)
      remaining == { i \in 0..(Len(before) - 1) : i \notin merged \/ i = survivor }
  IN  /\ Len(after) = Cardinality(remaining)
      /\ after[survivor + 1].pixelCount = CountAt(before, merged)
      /\ \A f \in SummedFields :
            CostOrZero(after[survivor + 1][f]) = SumAt(before, merged, f)
      /\ after[survivor + 1].hex = before[survivor + 1].hex
      /\ \A k \in 1..Len(after) :
            Nth(remaining, k) # survivor => after[k] = before[Nth(remaining, k) + 1]
      /\ selection = {survivor}

\* C10: a merge of two or more selected rows leaves, at the lowest selected
\* index, a row whose pixelCount, percentValid, areaCm2, yarnLength_m_single,
\* yarnLength_m, yarnWeight_g, yarnWeightWithWaste_g and cost (an absent cost
\* counting as 0) are the sums of these fields over the merged rows; the
\* other selected rows are gone, the unselected rows are as they were and in
\* their order, and the selection is the surviving row alone.
C10_MergeSums ==
  [][MergeClick =>
       MergeOutcome(lastPerColor, selectedColorIdxs, lastPerColor', selectedColorIdxs')]_vars

\* three rows merged into one of three pixels, selected, beside another row
C10_Witness ==
  /\ Len(lastPerColor) >= 2
  /\ \E k \in 1..Len(lastPerColor) :
        /\ MergedRow(lastPerColor[k])
        /\ lastPerColor[k].pixelCount = 3
        /\ lastPerColor[k].areaCm2 = RInt(3)
        /\ selectedColorIdxs = {k - 1}
        /\ \A j \in 1..Len(lastPerColor) : j # k => ~MergedRow(lastPerColor[j])

(***************************************************************************)
(* Properties of the cost.                                                 *)
(***************************************************************************)
\* a price per kg can be resolved from the form: an explicit positive price
\* per kg, else a positive skein weight and a positive skein price
ExplicitPrice(params) == Positive(params.yarnPricePerKg)
SkeinPrice(params) == Positive(params.skeinWeightG) /\ Positive(params.skeinPrice)
PriceResolvable(params) == ExplicitPrice(params) \/ SkeinPrice(params)

\* the price per kg so resolved
ResolvedPricePerKg(params) ==
  IF ExplicitPrice(params) THEN params.yarnPricePerKg
  ELSE RMul(RDiv(params.skeinPrice, params.skeinWeightG), RInt(1000))

\* the weight with wastage of a row, in kg, times a price per kg
CostAt(row, pricePerKg) == RMul(RDiv(row.yarnWeightWithWaste_g, RInt(1000)), pricePerKg)

\* C11: an analysis that runs to its end while a price per kg is resolvable
\* leaves rows that each carry cost = weight with wastage (in kg) x price
\* per kg, and a summary whose total cost is the sum of these.
C11_PerColourCost ==
  [][AnalyzeClick /\ PriceResolvable(form) /\ ~PriceThrows(form) =>
       /\ \A k \in 1..Len(lastPerColor') :
            lastPerColor'[k].yarnCost = CostAt(lastPerColor'[k], ResolvedPricePerKg(form))
       /\ lastRenderPayload' # Null
       /\ lastRenderPayload'.yarn.totals.totalCost =
            RSum([k \in 1..Len(lastPerColor') |->
                    CostAt(lastPerColor'[k], ResolvedPricePerKg(form))])]_vars

\* the scenario's form: a skein of 100 g at a price of 10, no price per kg
SkeinOnly(params) ==
  /\ ~ExplicitPrice(params)
  /\ params.skeinWeightG = RInt(100) /\ params.skeinPrice = RInt(10)

\* the same form with the price per kg (skeinPrice / skeinWeightG) x 1000
\* typed in instead of the skein
WithExplicitPrice(params) ==
  [params EXCEPT !.yarnPricePerKg = ResolvedPricePerKg(params),
                 !.skeinWeightG = Undefined, !.skeinPrice = Undefined]

\* the rows an analysis of the canvas under a form leaves when it runs to
\* its end
RowsOfAnalysis(cv, params) ==
  computeYarnForClusters(ImportedAnalyzeImage(cv, AnalysisOptions(params)).clusters,
                         computeYarnConstants(params)).perColor

\* C12: an analysis with only the skein of 100 g at 10 filled in runs to its
\* end and leaves, cluster by cluster, the rows and the costs that the
\* analysis with the explicit price per kg 100 leaves.
C12_SkeinEquivalence ==
  [][AnalyzeClick /\ SkeinOnly(form) =>
       \E rows \in { RowsOfAnalysis(canvas, WithExplicitPrice(form)) } :
         /\ ~PriceThrows(WithExplicitPrice(form))
         /\ Len(lastPerColor') = Len(rows)
         /\ \A k \in 1..Len(rows) :
              /\ lastPerColor'[k].hex = rows[k].hex
              /\ lastPerColor'[k].yarnCost = rows[k].yarnCost]_vars

\* no row carries a numeric cost
NoCost(rows) == \A k \in 1..Len(rows) : ~IsNumber(rows[k].yarnCost)

\* C13: while no price is resolvable no row carries a numeric cost: an
\* analysis without a price leaves rows without a cost, and a merge of rows
\* that all lack a cost leaves rows that all lack a cost (not a cost of 0).
C13_AbsentCostStaysAbsent ==
  /\ [][AnalyzeClick /\ ~PriceResolvable(form) => NoCost(lastPerColor')]_vars
  /\ [][MergeClick /\ NoCost(lastPerColor) => NoCost(lastPerColor')]_vars

(***************************************************************************)
(* Properties of calculation.js.                                           *)
(***************************************************************************)
RSub(p, q) == RAdd(p, RMul(RInt(-1), q))

ConstantsReturned == calcConstants # Null

\* the length per area of the same parameters with a cut pile
CutLength == computeYarnConstants([calcParams EXCEPT !.pileType = "cut"]).L_m_per_cm2_single

\* mode is "advanced" and both densities are finite and strictly positive
MeasuredRequested ==
  /\ calcParams.mode = "advanced"
  /\ calcParams.linesPerCm.d > 0 /\ calcParams.linesPerCm.n > 0
  /\ calcParams.stitchesPerCm.d > 0 /\ calcParams.stitchesPerCm.n > 0

\* the backing component of the measured path, 0.01 x linesPerCm
Backing == RMul(Rat(1, 100), calcParams.linesPerCm)

\* C14 as stated: in both paths the length per area of a loop pile is 0.95
\* times the one of a cut pile with the same other parameters, and strictly
\* less than it.
C14_LoopIsCutTimesFactor ==
  ConstantsReturned /\ calcParams.pileType = "loop" =>
    /\ calcConstants.L_m_per_cm2_single = RMul(CutLength, Rat(19, 20))
    /\ RLt(calcConstants.L_m_per_cm2_single, CutLength)

\* C14 amended: in the preset path the length per area of a loop pile is 0.95
\* times the one of a cut pile and strictly less; in the measured path the
\* factor multiplies the pile component only, so the loop value is the backing
\* component plus 0.95 times the excess of the cut value over it, strictly
\* less than the cut value exactly when the pile height is positive.
C14_LoopFactorOnPile ==
  ConstantsReturned /\ calcParams.pileType = "loop" =>
    IF MeasuredRequested
    THEN /\ calcConstants.L_m_per_cm2_single =
              RAdd(Backing, RMul(Rat(19, 20), RSub(CutLength, Backing)))
         /\ RLt(calcConstants.L_m_per_cm2_single, CutLength)
              <=> Positive(calcParams.pileHeightMm)
    ELSE /\ calcConstants.L_m_per_cm2_single = RMul(CutLength, Rat(19, 20))
         /\ RLt(calcConstants.L_m_per_cm2_single, CutLength)

\* a loop pile of 10 mm on the measured path, 2 lines and 3 stitches per cm:
\* 0.02 + 0.95 x 0.12 = 0.134 m/cm2, against 0.14 for the cut pile
C14_Witness ==
  /\ ConstantsReturned /\ calcParams.pileType = "loop" /\ MeasuredRequested
  /\ Positive(calcParams.pileHeightMm)
  /\ CutLength = Rat(14, 100)
  /\ calcConstants.L_m_per_cm2_single = Rat(134, 1000)

\* only a length per mass is supplied, and it is usable
OnlyLengthPerMass ==
  /\ calcParams.yarnGPerM = Undefined
  /\ calcParams.yarnMPerKg.d > 0 /\ calcParams.yarnMPerKg.n > 0

\* C15 as stated: when only yarnMPerKg = L > 0 is supplied, 1 / g_per_m_single
\* of the constants returned is L.
C15_InverseRecoversL ==
  ConstantsReturned /\ OnlyLengthPerMass =>
    RDiv(RInt(1), calcConstants.g_per_m_single) = calcParams.yarnMPerKg

\* C15 amended: when only yarnMPerKg = L > 0 is supplied, the grams per metre
\* returned, re-expressed as metres per kilogram by 1000 / g_per_m_single, are L.
C15_RoundTripPerKg ==
  ConstantsReturned /\ OnlyLengthPerMass =>
    RDiv(RInt(1000), calcConstants.g_per_m_single) = calcParams.yarnMPerKg

\* 2500 m/kg alone give 0.4 g/m
C15_Witness ==
  /\ ConstantsReturned /\ OnlyLengthPerMass
  /\ calcParams.yarnMPerKg = RInt(2500)
  /\ calcConstants.g_per_m_single = Rat(2, 5)

\* a number that is finite and strictly positive
Usable(x) == x.d > 0 /\ x.n > 0

\* C16: the grams per metre returned are yarnGPerM when it is finite and
\* positive, whatever yarnMPerKg is; otherwise 1000 / yarnMPerKg when that is
\* finite and positive; otherwise, and only then, the default 0.5.
C16_ResolutionOrder ==
  ConstantsReturned =>
    /\ Usable(calcParams.yarnGPerM) =>
         calcConstants.g_per_m_single = calcParams.yarnGPerM
    /\ ~Usable(calcParams.yarnGPerM) /\ Usable(calcParams.yarnMPerKg) =>
         calcConstants.g_per_m_single = RDiv(RInt(1000), calcParams.yarnMPerKg)
    /\ ~Usable(calcParams.yarnGPerM) /\ ~Usable(calcParams.yarnMPerKg) =>
         calcConstants.g_per_m_single = Rat(1, 2)
    /\ (Usable(calcParams.yarnGPerM) \/ Usable(calcParams.yarnMPerKg)) =>
         calcConstants.g_per_m_single \in
           { calcParams.yarnGPerM, RDiv(RInt(1000), calcParams.yarnMPerKg) }

\* 0.3 g/m and 2500 m/kg are both given, and 0.3 g/m is returned
C16_Witness ==
  /\ ConstantsReturned
  /\ calcParams.yarnGPerM = Rat(3, 10) /\ calcParams.yarnMPerKg = RInt(2500)
  /\ calcConstants.g_per_m_single = Rat(3, 10)

\* max(0, pileHeightMm || 0) / 1000 of the parameters
PileHeightM == RDiv(RMax(Zero, OrZero(calcParams.pileHeightMm)), RInt(1000))

\* 0.95 for a loop pile, 1 for a cut pile
PileFactor == IF calcParams.pileType = "loop" THEN Rat(19, 20) ELSE RInt(1)

\* the measured-density formula: 0.01 x lines + 2 x h x factor x lines x stitches
MeasuredLength ==
  RAdd(RMul(Rat(1, 100), calcParams.linesPerCm),
       RMul(RMul(RMul(RInt(2), PileHeightM), PileFactor),
            RMul(calcParams.linesPerCm, calcParams.stitchesPerCm)))

\* the preset formula: 1200 m/m2 x preset x height / 12 mm x factor, per cm2
PresetLength ==
  RDiv(RMul(RMul(RMul(RInt(1200),
                      CASE calcParams.densityPreset = "low"  -> Rat(4, 5)
                        [] calcParams.densityPreset = "high" -> Rat(5, 4)
                        [] OTHER                             -> RInt(1)),
                 IF PileHeightM.n > 0 THEN RDiv(PileHeightM, Rat(12, 1000)) ELSE RInt(1)),
            PileFactor),
       RInt(10000))

\* no parameter of the length per area is infinite
ValidatedInput ==
  \A f \in {"linesPerCm", "stitchesPerCm", "pileHeightMm"} :
    calcParams[f].d # 0 \/ calcParams[f].n = 0

\* C17: the length per area returned is the one of the measured-density
\* formula exactly when mode is "advanced" and both densities are finite and
\* strictly positive, the one of the preset formula in every other case, and
\* for a validated input it is finite and not negative.
C17_PathSelection ==
  ConstantsReturned =>
    /\ MeasuredRequested => calcConstants.L_m_per_cm2_single = MeasuredLength
    /\ ~MeasuredRequested => calcConstants.L_m_per_cm2_single = PresetLength
    /\ ValidatedInput => /\ IsFinite(calcConstants.L_m_per_cm2_single)
                         /\ calcConstants.L_m_per_cm2_single.n >= 0

\* advanced mode with 2 lines per cm and 0 stitches per cm: the preset formula
\* gives 0.1 m/cm2 for a medium cut pile of 10 mm
C17_Witness ==
  /\ ConstantsReturned /\ calcParams.mode = "advanced"
  /\ calcParams.linesPerCm = RInt(2) /\ calcParams.stitchesPerCm = Zero
  /\ calcParams.densityPreset = "medium" /\ calcParams.pileType = "cut"
  /\ calcParams.pileHeightMm = RInt(10)
  /\ calcConstants.L_m_per_cm2_single = Rat(1, 10)

YarnReturned == calcYarn # Null

\* the area of a cluster, 0 when it is missing
AreaOrZero(c) == IF c.areaCm2 = Undefined THEN Zero ELSE c.areaCm2

\* the fields a cluster comes with
ClusterFields == {"id", "rgb", "hex", "pixelCount", "percentValid", "areaCm2"}

\* C18: computeYarnForClusters returns one record per input cluster, in input
\* order, with the cluster's own fields, yarnLength_m_single = area x
\* L_m_per_cm2_single, yarnLength_m = yarnLength_m_single x strands,
\* yarnWeight_g = yarnLength_m x g_per_m_single and yarnWeightWithWaste_g =
\* yarnWeight_g x (1 + wastage), a missing area counting as 0.
C18_PerCluster ==
  YarnReturned =>
    /\ Len(calcYarn.perColor) = Len(calcClusters)
    /\ \A k \in 1..Len(calcClusters) :
         LET c == calcClusters[k]
             r == calcYarn.perColor[k]
         IN  /\ \A f \in ClusterFields : r[f] = c[f]
             /\ r.yarnLength_m_single =
                  RMul(AreaOrZero(c), calcConstants.L_m_per_cm2_single)
             /\ r.yarnLength_m = RMul(r.yarnLength_m_single, calcConstants.strands)
             /\ r.yarnWeight_g = RMul(r.yarnLength_m, calcConstants.g_per_m_single)
             /\ r.yarnWeightWithWaste_g =
                  RMul(r.yarnWeight_g, RAdd(RInt(1), calcConstants.wastage))

\* two clusters, the first without an area, with 2 strands and 15 % wastage:
\* the first record has length 0, the second a weight above its raw weight
C18_Witness ==
  /\ YarnReturned /\ Len(calcClusters) = 2
  /\ calcClusters[1].areaCm2 = Undefined
  /\ calcConstants.strands = RInt(2) /\ calcConstants.wastage = Rat(15, 100)
  /\ calcYarn.perColor[1].yarnLength_m_single = Zero
  /\ calcYarn.perColor[2].id = 1
  /\ RLt(Zero, calcYarn.perColor[2].yarnWeight_g)
  /\ RLt(calcYarn.perColor[2].yarnWeight_g, calcYarn.perColor[2].yarnWeightWithWaste_g)

(***************************************************************************)
(* Properties of the scan, pixel by pixel.                                 *)
(***************************************************************************)
\* the pixel the next iteration reads
NextPixel == canvas.data[scanPos + 1]

\* the distance of the Lab value lab to the centroid of the cluster cl
DistTo(lab, cl) == deltaE76(lab, cl.labMean)

\* the minimum distance of lab to the centroids of cs is at most the threshold
SomeWithin(lab, cs) ==
  \E k \in 1..Len(cs) : WithinThreshold(DistTo(lab, cs[k]), deltaEThreshold(opts.tolerance))

\* C19: an iteration on a valid pixel admits it to a cluster at the minimum
\* distance and creates none when a cluster exists and the minimum distance to
\* the centroids is within the threshold; otherwise it appends exactly one
\* cluster of count 1 seeded by the pixel; either way one count grows by one
\* and every other cluster is unchanged.
C19_AdmissionRule ==
  [][ScanIteration /\ ~IsTransparent(NextPixel, opts.alphaThreshold) =>
       LET cs   == scanSt.clusters
           ds   == scanSt'.clusters
           lab  == LabOf[NextPixel]
       IN  IF SomeWithin(lab, cs)
           THEN /\ Len(ds) = Len(cs)
                /\ \E k \in 1..Len(cs) :
                     /\ \A j \in 1..Len(cs) : RLe(DistTo(lab, cs[k]), DistTo(lab, cs[j]))
                     /\ ds[k].count = cs[k].count + 1
                     /\ \A j \in 1..Len(cs) : j # k => ds[j] = cs[j]
           ELSE /\ Len(ds) = Len(cs) + 1
                /\ ds[Len(ds)].count = 1
                /\ ds[Len(ds)].labSum = lab
                /\ ds[Len(ds)].rgbSum = << NextPixel[1], NextPixel[2], NextPixel[3] >>
                /\ \A j \in 1..Len(cs) : ds[j] = cs[j]]_vars

\* the third pixel was admitted to the second of two clusters
C19_Witness ==
  /\ scanSt # Null /\ scanPos = 3
  /\ Len(scanSt.clusters) = 2
  /\ scanSt.rawLabel[3] = 1
  /\ scanSt.clusters[2].count = 2
  /\ scanSt.clusters[1].count = 1

\* the pixels, from 1, the scan has given to the cluster id so far
AdmittedTo(id) == { i \in 1..scanPos : scanSt.rawLabel[i] = id }

RECURSIVE LabSumOver(_)
LabSumOver(is) ==
  IF is = {} THEN << 0, 0, 0 >>
  ELSE LET i    == CHOOSE x \in is : TRUE
           rest == LabSumOver(is \ {i})
           lab  == LabOf[canvas.data[i]]
       IN  << rest[1] + lab[1], rest[2] + lab[2], rest[3] + lab[3] >>

\* C20: after every iteration each cluster's labMean is labSum / count, labSum
\* the sum of the Lab values and count the number of the pixels admitted to it
\* so far.
C20_CentroidInvariant ==
  scanSt # Null =>
    \A k \in 1..Len(scanSt.clusters) :
      LET cl == scanSt.clusters[k]
      IN  /\ cl.count = Cardinality(AdmittedTo(cl.id))
          /\ cl.count >= 1
          /\ cl.labSum = LabSumOver(AdmittedTo(cl.id))
          /\ cl.labMean = [sum |-> cl.labSum, n |-> cl.count]

\* a cluster holds two pixels of different colours
C20_Witness ==
  /\ scanSt # Null
  /\ \E k \in 1..Len(scanSt.clusters) :
       /\ scanSt.clusters[k].count = 2
       /\ \E i, j \in AdmittedTo(scanSt.clusters[k].id) :
            LabOf[canvas.data[i]] # LabOf[canvas.data[j]]

(***************************************************************************)
(* Properties of the results of analyzeImage: areas, policy, order.        *)
(***************************************************************************)
\* max(0, rugWidthCm) x max(0, rugHeightCm) of the options
PhysicalBox ==
  RInt((IF opts.rugWidthCm > 0 THEN opts.rugWidthCm ELSE 0)
         * (IF opts.rugHeightCm > 0 THEN opts.rugHeightCm ELSE 0))

AreasOf(cs) == [k \in 1..Len(cs) |-> cs[k].areaCm2]

\* C21: areaPerPixel is the physical box over pixelsTotal, the number of all
\* pixels, valid or not; the area of every cluster, kept or dropped, is its
\* pixelCount times areaPerPixel; the areas of all clusters sum to the box
\* times pixelsValid / pixelsTotal, never more than the box.
C21_AreaMapping ==
  (Analyzed /\ NonEmpty) =>
    LET t   == result.totals
        all == AllClusters(result)
    IN  /\ t.pixelsTotal = Len(canvas.data)
        /\ t.boxAreaCm2 = PhysicalBox
        /\ t.areaPerPixel = RDiv(PhysicalBox, RInt(t.pixelsTotal))
        /\ \A k \in 1..Len(all) :
             all[k].areaCm2 = RMul(RInt(all[k].pixelCount), t.areaPerPixel)
        /\ RSum(AreasOf(all)) =
             RDiv(RMul(PhysicalBox, RInt(t.pixelsValid)), RInt(t.pixelsTotal))
        /\ RLe(RSum(AreasOf(all)), PhysicalBox)

\* a box of 4 cm2 over pixels of which one is invalid, with a kept and a
\* dropped cluster: the areas sum to less than the box
C21_Witness ==
  /\ Analyzed /\ NonEmpty
  /\ PhysicalBox = RInt(4)
  /\ result.totals.pixelsValid + 1 = result.totals.pixelsTotal
  /\ Len(result.clusters) >= 1 /\ Len(result.dropped) >= 1
  /\ RLt(Zero, RSum(AreasOf(AllClusters(result))))
  /\ RLt(RSum(AreasOf(AllClusters(result))), PhysicalBox)

\* C22: the clusters an analysis keeps are those the policy passed by the
\* caller keeps.  The click handler passes minAreaPercent: a cluster is kept
\* if and only if its percentValid >= minAreaPercent; and where analyzeImage
\* applies the area policy, a cluster is kept if and only if its pixelCount
\* >= max(0, minAreaCm2) / areaPerPixel, every cluster when areaPerPixel = 0.
C22_PolicyApplied ==
  [][AnalyzeClick /\ ~PriceThrows(form) =>
       LET p         == lastRenderPayload'
           minArea   == RMax(Zero, AnalysisOptions(form).minAreaCm2)
           KeptByArea(c) ==
             \/ p.totals.areaPerPixel = Zero
             \/ RLe(RDiv(minArea, p.totals.areaPerPixel), RInt(c.pixelCount))
           KeptByPercent(c) == RLe(form.minAreaPercent, c.percentValid)
       IN  /\ p # Null
           /\ deployed = "area" =>
                /\ \A k \in 1..Len(p.clusters) : KeptByArea(p.clusters[k])
                /\ \A k \in 1..Len(p.dropped) : ~KeptByArea(p.dropped[k])
           /\ \A k \in 1..Len(p.clusters) : KeptByPercent(p.clusters[k])
           /\ \A k \in 1..Len(p.dropped) : ~KeptByPercent(p.dropped[k])]_vars

\* C23: the kept clusters are in non-increasing pixelCount order, and of two
\* kept clusters with the same pixelCount the one created first comes first.
C23_KeptOrder ==
  Analyzed =>
    \A j, k \in 1..Len(result.clusters) :
      j < k =>
        /\ result.clusters[j].pixelCount >= result.clusters[k].pixelCount
        /\ result.clusters[j].pixelCount = result.clusters[k].pixelCount =>
             result.clusters[j].id < result.clusters[k].id

\* three kept clusters: the largest was created second and comes first, the
\* two others are equal in size and in creation order
C23_Witness ==
  /\ Analyzed /\ Len(result.clusters) = 3
  /\ result.clusters[1].id = 1 /\ result.clusters[1].pixelCount = 2
  /\ result.clusters[2].id = 0 /\ result.clusters[2].pixelCount = 1
  /\ result.clusters[3].id = 2 /\ result.clusters[3].pixelCount = 1

(***************************************************************************)
(* Properties of the preset path and of the normalisation of the inputs.   *)
(***************************************************************************)
\* low 0.8, medium 1.0, high 1.25, medium for any other preset
TierMultiplier ==
  IF calcParams.densityPreset = "low" THEN Rat(4, 5)
  ELSE IF calcParams.densityPreset = "high" THEN Rat(5, 4) ELSE RInt(1)

\* 0.12 m/cm2 x preset multiplier x ratio x loop factor
PresetAtRatio(ratio) == RMul(RMul(RMul(Rat(12, 100), TierMultiplier), ratio), PileFactor)

PresetTaken == ConstantsReturned /\ ~MeasuredRequested

\* C24 as stated: on the preset path the length per area is 0.12 m/cm2 x
\* preset multiplier x pileHeight / 12 mm x loop factor for every pile height
\* >= 0, hence 0 when the pile height is 0.
C24_PresetProportional ==
  PresetTaken /\ calcParams.pileHeightMm.d > 0 /\ calcParams.pileHeightMm.n >= 0 =>
    /\ calcConstants.L_m_per_cm2_single =
         PresetAtRatio(RDiv(calcParams.pileHeightMm, RInt(12)))
    /\ calcParams.pileHeightMm = Zero => calcConstants.L_m_per_cm2_single = Zero

\* C24 amended: on the preset path the length per area is 0.12 m/cm2 x preset
\* multiplier x pileHeight / 12 mm x loop factor for every pile height > 0,
\* proportional to the pile height; for a pile height that is 0, missing or
\* negative the ratio is taken as 1, the value of the 12 mm baseline.
C24_PresetFormula ==
  PresetTaken =>
    IF calcParams.pileHeightMm.d > 0 /\ calcParams.pileHeightMm.n > 0
    THEN calcConstants.L_m_per_cm2_single =
           PresetAtRatio(RDiv(calcParams.pileHeightMm, RInt(12)))
    ELSE calcConstants.L_m_per_cm2_single = PresetAtRatio(RInt(1))

\* a low preset with a loop pile of 10 mm: 0.12 x 0.8 x 10/12 x 0.95 = 0.076
C24_Witness ==
  /\ PresetTaken /\ calcParams.mode = "beginner"
  /\ calcParams.densityPreset = "low" /\ calcParams.pileType = "loop"
  /\ calcParams.pileHeightMm = RInt(10)
  /\ calcConstants.L_m_per_cm2_single = Rat(76, 1000)

\* the four constants computeYarnConstants returns
ConstantNames == {"g_per_m_single", "strands", "wastage", "L_m_per_cm2_single"}

\* C25: whatever the input, missing, negative or not a number, the strands
\* returned are an integer >= 1, 1 when none are given, the wastage returned
\* is a number >= 0, the length per area, which the pile height enters, is
\* not negative, and none of the constants returned is NaN.
C25_Normalised ==
  ConstantsReturned =>
    /\ calcConstants.strands.d = 1 /\ calcConstants.strands.n >= 1
    /\ calcParams.strands = Undefined => calcConstants.strands = RInt(1)
    /\ calcConstants.wastage.d > 0 /\ calcConstants.wastage.n >= 0
    /\ calcConstants.L_m_per_cm2_single.d > 0 /\ calcConstants.L_m_per_cm2_single.n >= 0
    /\ \A f \in ConstantNames : calcConstants[f] # NaN

IdsOf(cs) == { cs[k].id : k \in 1..Len(cs) }

PixelCountSum(cs) == ISum([k \in 1..Len(cs) |-> cs[k].pixelCount])

\* C26: every cluster the scan created is in exactly one of the kept and the
\* dropped list; pixelsKept is the sum of pixelCount over the kept clusters
\* and the number of labels >= 0; with the pixelCount of the dropped clusters
\* it adds up to pixelsValid; droppedCount is the length of the dropped list.
C26_Partition ==
  (Analyzed /\ NonEmpty) =>
    LET t == result.totals
    IN  /\ IdsOf(result.clusters) \cup IdsOf(result.dropped) = IdsOf(ScanNow.clusters)
        /\ IdsOf(result.clusters) \cap IdsOf(result.dropped) = {}
        /\ Len(result.clusters) + Len(result.dropped) = Len(ScanNow.clusters)
        /\ t.pixelsKept = PixelCountSum(result.clusters)
        /\ version = "area" =>
             t.pixelsKept = Cardinality({i \in PixelIdx : result.labels[i] >= 0})
        /\ t.pixelsKept + PixelCountSum(result.dropped) = t.pixelsValid
        /\ t.droppedCount = Len(result.dropped)

\* the label map of an image with an invalid pixel, a dropped cluster and a
\* kept cluster of two pixels
C26_Witness ==
  /\ version = "area" /\ NonEmpty
  /\ Len(result.clusters) = 1 /\ Len(result.dropped) = 1
  /\ result.totals.pixelsKept = 2
  /\ result.totals.pixelsValid = 3
  /\ result.totals.pixelsTotal = 4

(***************************************************************************)
(* Properties of the labels and of the buttons of the app.                 *)
(***************************************************************************)
\* the row that holds, after a merge of the rows sources into the row
\* targetIdx, what the row l held before it
RowAfterMerge(l, targetIdx, sources) ==
  IF l \in sources THEN targetIdx
  ELSE l - Cardinality({ s \in sources : s < l })

\* C27: after an analysis every label >= 0 is the index of the row of the
\* pixel's cluster, and a merge keeps it so: every label >= 0 is then the
\* index of an existing row, the one that now holds the pixel's colour group.
C27_LabelsFollowRows ==
  /\ [][AnalyzeClick /\ ~PriceThrows(form) /\ analysisLabels' # Null =>
          \A i \in 1..Len(analysisLabels') :
            analysisLabels'[i] >= 0 =>
              /\ HasRow(lastPerColor', analysisLabels'[i])
              /\ lastPerColor'[analysisLabels'[i] + 1].id =
                   Scan(canvas, form.alphaThreshold, form.tolerance).rawLabel[i]]_vars
  /\ [][MergeClick /\ analysisLabels # Null =>
          LET targetIdx == SetMin(selectedColorIdxs)
              sources   == selectedColorIdxs \ {targetIdx}
          IN  /\ analysisLabels' # Null
              /\ \A i \in 1..Len(analysisLabels) :
                   analysisLabels[i] >= 0 =>
                     /\ HasRow(lastPerColor', analysisLabels'[i])
                     /\ analysisLabels'[i] =
                          RowAfterMerge(analysisLabels[i], targetIdx, sources)]_vars

\* C29: in every reachable state the Rename button is enabled exactly when
\* one row is selected, the Merge button exactly when two or more are, and
\* the CSV and PDF buttons exactly when there are rows.
C29_ButtonsFollowState ==
  /\ buttons.rename <=> Cardinality(selectedColorIdxs) = 1
  /\ buttons.merge <=> Cardinality(selectedColorIdxs) >= 2
  /\ buttons.csv <=> Len(lastPerColor) > 0
  /\ buttons.pdf <=> Len(lastPerColor) > 0


(***************************************************************************)
(* Properties of the label stores                                          *)
(***************************************************************************)

\* C28: the provisional label recorded for a valid pixel is the id of the
\* cluster it was admitted to, and the final label of a pixel of a kept
\* cluster is the index of that cluster in the kept list, never a negative
\* number, however many clusters the scan created
C28_NoWrapAround ==
  labelSt # Null =>
    /\ labelSt.stage # "scan" => labelSt.raw = labelSt.cluster
    /\ (labelSt.stage = "mapped"
        /\ KeptPosition(labelSt.first, labelSt.length, labelSt.cluster) >= 0) =>
         /\ labelSt.label = KeptPosition(labelSt.first, labelSt.length, labelSt.cluster)
         /\ labelSt.label >= 0


(***************************************************************************)
(* Properties of the preset store                                          *)
(***************************************************************************)

\* the stored settings read as s does, field by field
HoldsSettings(stored, s) ==
  /\ DOMAIN stored \subseteq DOMAIN s
  /\ \A k \in DOMAIN s : ReadField(stored, k) = s[k]

OnePerName == \A i, j \in 1..Len(presets) : presets[i].name = presets[j].name => i = j

\* what a call of savePreset(name, s) leaves, from the list it found
SaveLeaves(name, s) ==
  LET idx == FindIndex(presets, name)
      at  == IF idx > 0 THEN idx ELSE Len(presets) + 1
  IN /\ Len(presets') = (IF idx > 0 THEN Len(presets) ELSE Len(presets) + 1)
     /\ \A i \in 1..Len(presets') : presets'[i].name = name <=> i = at
     /\ HoldsSettings(presets'[at].settings, s)
     /\ \A i \in 1..Len(presets) : i # at => presets'[i] = presets[i]

\* what a call of deletePreset(name) leaves
DeleteLeaves(name) ==
  LET idx == FindIndex(presets, name)
  IN IF idx = 0 THEN presets' = presets
     ELSE /\ Len(presets') = Len(presets) - 1
          /\ \A i \in 1..Len(presets') : presets'[i] = (IF i < idx THEN presets[i] ELSE presets[i + 1])

====
